---- MODULE Spec2Model ----
(***************************************************************************)
(* Interview Bot (src/server_ws.py): the WebSocket interview session, the  *)
(* JSON-file session store and the derived-analysis (summary / score)      *)
(* requests, as a state machine.                                           *)
(*                                                                         *)
(* All coroutines run on one asyncio event loop: a handler is suspended    *)
(* only at an await.  load_db .. save_db sequences contain no await, so    *)
(* each is one atomic step; an awaited chat_completion splits a handler    *)
(* into the step that issues the call and the step that resumes after it.  *)
(* A client disconnect is delivered to the session at receive_text, where  *)
(* the handler catches WebSocketDisconnect.                                *)
(***************************************************************************)
EXTENDS Integers, Sequences, FiniteSets, TLC

(***************************************************************************)
(* Bounds of the exploration.                                              *)
(***************************************************************************)
NumSessions == 2
MaxSideTurns == 1
MaxFailures == 1
MaxIOErrors == 1
MaxLateTexts == 2
MaxRequests == 2
MaxTtsRequests == 1
MaxChunks == 2
MaxShortTurns == 1
MaxOverrun == 1

(***************************************************************************)
(* Program constants and fixed texts.                                      *)
(***************************************************************************)
max_assistant_turns == 30

DEFAULT_JOB_DESCRIPTION == "Software Engineer focusing on backend Python services."
DEFAULT_EXPERIENCE_REQUIRED == "3"
DEFAULT_CANDIDATE_NAME == "Candidate"

closing ==
    "Thanks for participating in the interview. We will get back to you regarding the "
    \o "next steps. Please keep an eye on your email for further instructions."

EmptyNotice == "[error] Empty message"
ConcludedNotice == "Interview already concluded."
SavedNotice == "[INFO] Interview transcript saved."
SaveFailedNotice == "[error] Failed to save transcript: OSError"
CompletionError == "[error] OpenAI error: APIError"

Ids == 1..NumSessions

\* Python's None, and a present value, for the nullable fields of a record.
None == <<>>
Some(x) == <<x>>

\* `a or b` on strings: the empty string is falsy.
StrOr(a, b) == IF a = "" THEN b ELSE a

\* dict.get(key) and dict.update(other) on dicts modelled as functions over
\* the keys that are present.
Get(d, k) == IF k \in DOMAIN d THEN d[k] ELSE None

Update(d, u) ==
    [k \in (DOMAIN d) \cup (DOMAIN u) |-> IF k \in DOMAIN u THEN u[k] ELSE d[k]]

build_system_prompt(job, exp) ==
    "You are Interview Bot. Your job is to conduct a structured job interview.\n"
    \o "Role: Interview candidates for this position: " \o job \o ".\n"
    \o "Target seniority: ~" \o exp \o " years of relevant experience.\n\n"
    \o "Rules:\n"

Greeting(name) ==
    "Hi " \o name
    \o ", let's start the interview. Can you please introduce yourself?"

InterviewIdLine(id) == "[INTERVIEW_ID] " \o ToString(id)

\* The lines lo..hi of the log, joined: those of the first half of the
\* range, a line break, those of the second half.
RECURSIVE JoinRange(_, _, _)
JoinRange(log, lo, hi) ==
    IF lo = hi THEN log[lo].speaker \o ": " \o log[lo].text
    ELSE LET mid == (lo + hi) \div 2
         IN  JoinRange(log, lo, mid) \o "\n" \o JoinRange(log, mid + 1, hi)

\* "\n".join(f"{t['speaker']}: {t['text']}" for t in conversation_log)
JoinLines(log) == IF log = <<>> THEN "" ELSE JoinRange(log, 1, Len(log))

Flatten(log) == JoinLines(log)

\* The content of a completion, as the API returns it, and str.strip() of it.
Content(body, padded) == [body |-> body, padded |-> padded]
Raw(c) == IF c.padded THEN " " \o c.body \o "\n" ELSE c.body
Strip(c) == c.body

(***************************************************************************)
(* Inputs.                                                                 *)
(***************************************************************************)
\* Query parameters of a connection: absent ones are the empty string.
QueryParams ==
    { [job |-> "", exp |-> "", name |-> ""],
      [job |-> "Backend Engineer", exp |-> "4", name |-> "Ada"] }

\* The parameters of the connections of a run of full-length interviews.
LongRunParams == { [job |-> "Backend Engineer", exp |-> "", name |-> "Ada"] }

UserTexts == {"", "I build APIs."}
Replies == { Content("Tell me more.", FALSE), Content("Tell me more.", TRUE) }

VARIABLES
    pc,
    job_desc, years_exp, candidate_name,
    messages,
    conversation_log,
    assistant_turns,
    ended,
    out,
    emitted,
    calls,
    db,
    now,
    stored,
    req,
    resp,
    derivedCalls,
    thrown,
    budget,
    paths,
    inodes,
    saving,
    loading,
    config,
    tts,
    extraction,
    recognition

sessionVars ==
    <<pc, job_desc, years_exp, candidate_name, messages, conversation_log,
      assistant_turns, ended, emitted, calls>>

storeVars == <<db, now, stored>>

requestVars == <<req, resp, derivedCalls, thrown>>

fileVars == <<paths, inodes, saving, loading>>

serviceVars == <<config, tts, extraction, recognition>>

vars ==
    <<sessionVars, out, storeVars, requestVars, budget, fileVars, serviceVars>>

(***************************************************************************)
(* The session store.  load_db returns the parsed document; save_db        *)
(* replaces it.  The clock advances with every write, and `stored` keeps   *)
(* the ids that were ever saved.                                           *)
(***************************************************************************)
load_db == db

save_db(doc) ==
    /\ db' = doc
    /\ now' = now + 1
    /\ stored' = stored \cup DOMAIN doc

\* Variant: the initial record carries a fixed id, not the session's.
InitialRecord_FixedId(id, job, exp, name, t) ==
    [ id |-> 0,
      job_description |-> job,
      experience_required |-> exp,
      candidate_name |-> name,
      created_at |-> t,
      messages |-> <<>>,
      transcript |-> None,
      summary |-> None,
      score |-> None ]

\* The record websocket_endpoint creates at the start of a session.
InitialRecord(id, job, exp, name, t) ==
    [ id |-> id,
      job_description |-> job,
      experience_required |-> exp,
      candidate_name |-> name,
      created_at |-> t,
      messages |-> <<>>,
      transcript |-> None,
      summary |-> None,
      score |-> None ]

Reqs == 1..MaxRequests

\* The ids a request may name: those of the sessions, and 0, which no session has.
Targets == 0..NumSessions

NoRequest == [pc |-> "new", kind |-> "", id |-> 0, snap |-> <<>>]

DoneRequest == [pc |-> "done", kind |-> "", id |-> 0, snap |-> <<>>]

TtsReqs == 1..MaxTtsRequests

\* A speech request that has not arrived: no text, no run of the
\* synthesizer, no temporary audio file, nothing read from it.
NoSpeech ==
    [pc |-> "new", text |-> "", runs |-> 0, synth |-> "", file |-> "none", read |-> 0]

\* No response text is being parsed.
NoExtraction == [pc |-> "idle", text |-> <<>>, value |-> <<>>]

\* No capture is under way (src/speech_to_text.py): nothing listened for,
\* no recognizer called, nothing returned.
NoRecognition ==
    [pc |-> "idle", backend |-> "", default |-> "", kwargs |-> {},
     heard |-> "", reported |-> "", runs |-> 0, result |-> <<>>]

NoResponse == [to |-> 0, kind |-> "", id |-> 0, status |-> 0, body |-> <<>>]

\* Variant: the written document holds the one record only.
Put_Alone(doc, id, rec) == [k \in {id} |-> rec]

\* db[interview_id] = rec on the loaded document.
Put(doc, id, rec) ==
    [k \in (DOMAIN doc) \cup {id} |-> IF k = id THEN rec ELSE doc[k]]

(***************************************************************************)
(* The store's files.  `paths` names the file (inode) at each path, 0 for  *)
(* none; `inodes` holds every file's content, a sequence of JSON tokens.   *)
(* `saving` is the server inside save_db, `loading` a load of the document *)
(* that opened the file and has yet to read it.                            *)
(***************************************************************************)
DB_PATH == "interview_records.json"

tmp_path == "interview_records.json.tmp"

\* Variant: save_db writes the document in place.
SavePath_InPlace == DB_PATH

\* with open(tmp_path, "w", encoding="utf-8") as f:
SavePath == tmp_path

OpenBrace == [tok |-> "{"]
CloseBrace == [tok |-> "}"]
Item(key, value) == [tok |-> "item", key |-> key, value |-> value]

\* Variant: the dump ends without the closing brace.
Serialize_Unclosed(doc) ==
    LET keys == SelectSeq([i \in 1..NumSessions |-> i], LAMBDA i : i \in DOMAIN doc)
    IN  <<OpenBrace>> \o [n \in 1..Len(keys) |-> Item(keys[n], doc[keys[n]])]

\* json.dump(db, f, ...): the document's tokens, its records in id order.
Serialize(doc) ==
    LET keys == SelectSeq([i \in 1..NumSessions |-> i], LAMBDA i : i \in DOMAIN doc)
    IN  <<OpenBrace>> \o [n \in 1..Len(keys) |-> Item(keys[n], doc[keys[n]])] \o <<CloseBrace>>

\* The text is one complete JSON object.
WellFormed(content) ==
    /\ Len(content) >= 2
    /\ content[1] = OpenBrace
    /\ content[Len(content)] = CloseBrace
    /\ \A n \in 2..(Len(content) - 1) : content[n].tok = "item"

\* load_db on the text of the file: empty text and text that does not parse
\* (JSONDecodeError) both give the empty document.
Parse(content) ==
    IF content = <<>> \/ ~WellFormed(content) THEN <<>>
    ELSE LET items == SubSeq(content, 2, Len(content) - 1)
             last(k) == CHOOSE n \in 1..Len(items) :
                            /\ items[n].key = k
                            /\ \A m \in 1..Len(items) : items[m].key = k => m <= n
         IN  [k \in {items[n].key : n \in 1..Len(items)} |-> items[last(k)].value]

\* Whitespace, and bytes that are not valid UTF-8, in the text of a file.
Space == [tok |-> "space"]
BadBytes == [tok |-> "bytes"]

\* f.read() with encoding="utf-8" decodes the whole file.
Decodable(content) == \A n \in 1..Len(content) : content[n].tok # "bytes"

\* content.strip(): the text without its leading and trailing whitespace.
RECURSIVE StripText(_)
StripText(content) ==
    IF content = <<>> THEN <<>>
    ELSE IF Head(content) = Space THEN StripText(Tail(content))
    ELSE IF content[Len(content)] = Space THEN StripText(SubSeq(content, 1, Len(content) - 1))
    ELSE content

\* load_db as a function of the file at DB_PATH: the mapping it returns, or
\* the exception it lets through.  FileNotFoundError and JSONDecodeError are
\* caught; the UnicodeDecodeError of f.read() is neither.
LoadResult(exists, content) ==
    IF ~exists THEN [raised |-> FALSE, value |-> <<>>]
    ELSE IF ~Decodable(content) THEN [raised |-> TRUE, value |-> <<>>]
    ELSE [raised |-> FALSE, value |-> Parse(StripText(content))]

NotSaving == [pc |-> "idle", doc |-> <<>>, fh |-> 0, pos |-> 0]

NotLoading == [pc |-> "idle", fh |-> 0, content |-> <<>>, previous |-> <<>>]

\* The server's memory before any connection or request.
StartMemory ==
    /\ pc = [s \in Ids |-> "idle"]
    /\ job_desc = [s \in Ids |-> ""]
    /\ years_exp = [s \in Ids |-> ""]
    /\ candidate_name = [s \in Ids |-> ""]
    /\ messages = [s \in Ids |-> <<>>]
    /\ conversation_log = [s \in Ids |-> <<>>]
    /\ assistant_turns = [s \in Ids |-> 0]
    /\ ended = [s \in Ids |-> FALSE]
    /\ out = [to |-> 0, frames |-> <<>>]
    /\ emitted = [s \in Ids |-> <<>>]
    /\ calls = [s \in Ids |-> 0]
    /\ db = <<>>
    /\ now = 0
    /\ stored = {}
    /\ req = [r \in Reqs |-> NoRequest]
    /\ resp = NoResponse
    /\ derivedCalls = [i \in Ids |-> [summary |-> 0, score |-> 0]]
    /\ thrown = [r \in Reqs |-> FALSE]
    /\ saving = NotSaving
    /\ loading = NotLoading
    /\ tts = [r \in TtsReqs |-> NoSpeech]

\* OPENAI_API_KEY was set and the Piper voice loaded at startup: client and
\* piper_tts are both initialized.
Configured == config = [client |-> TRUE, piper |-> TRUE]

\* The server before any connection or request, the store still empty.
Start ==
    /\ StartMemory
    /\ Configured
    /\ extraction = NoExtraction
    /\ recognition = NoRecognition
    /\ paths = [p \in {DB_PATH, tmp_path} |-> 0]
    /\ inodes = <<>>

Init ==
    /\ Start
    /\ budget = [cap |-> max_assistant_turns + MaxOverrun, failures |-> 0, io |-> 0, late |-> 0]

\* The completion calls of all sessions but the one that issued most, once
\* session s issues one more.
RECURSIVE SumOver(_, _)
SumOver(f, S) ==
    IF S = {} THEN 0
    ELSE LET x == CHOOSE y \in S : TRUE IN f[x] + SumOver(f, S \ {x})

SideTurnsAfter(s) ==
    LET c == [calls EXCEPT ![s] = @ + 1]
        top == CHOOSE x \in Ids : \A y \in Ids : c[y] <= c[x]
    IN  SumOver(c, Ids \ {top})

\* An interview text as it crosses the connection, by its direction.
Sent(text) == [speaker |-> "assistant", text |-> text]
Received(text) == [speaker |-> "user", text |-> text]

IoOutcomes == {"ok", "raise"}

IoAllowed(io) == io = "ok" \/ budget.io < MaxIOErrors

(***************************************************************************)
(* websocket_endpoint, from accept to the first receive_text: the record   *)
(* is created and saved, then the greeting and the id line are sent.       *)
(***************************************************************************)
Connect(s, params, io) ==
    /\ pc[s] = "idle"
    /\ IoAllowed(io)
    /\ LET job == StrOr(params.job, DEFAULT_JOB_DESCRIPTION)
           exp == StrOr(params.exp, DEFAULT_EXPERIENCE_REQUIRED)
           name == StrOr(params.name, DEFAULT_CANDIDATE_NAME)
           greeting == Greeting(name)
       IN  /\ job_desc' = [job_desc EXCEPT ![s] = job]
           /\ years_exp' = [years_exp EXCEPT ![s] = exp]
           /\ candidate_name' = [candidate_name EXCEPT ![s] = name]
           /\ IF io = "raise"
              THEN /\ pc' = [pc EXCEPT ![s] = "crashed"]
                   /\ budget' = [budget EXCEPT !.io = @ + 1]
                   /\ out' = [to |-> s, frames |-> <<>>]
                   /\ UNCHANGED <<messages, conversation_log, emitted, db, now, stored>>
              ELSE /\ save_db(Put(load_db, s, InitialRecord(s, job, exp, name, now)))
                   /\ messages' = [messages EXCEPT ![s] =
                          << [role |-> "system", content |-> build_system_prompt(job, exp)],
                             [role |-> "assistant", content |-> greeting] >>]
                   /\ conversation_log' = [conversation_log EXCEPT ![s] =
                          << [speaker |-> "assistant", text |-> greeting] >>]
                   /\ out' = [to |-> s, frames |-> <<greeting, InterviewIdLine(s)>>]
                   /\ emitted' = [emitted EXCEPT ![s] = <<Sent(greeting)>>]
                   /\ pc' = [pc EXCEPT ![s] = "recv"]
                   /\ UNCHANGED budget
    /\ UNCHANGED <<assistant_turns, ended, calls>>
    /\ UNCHANGED <<requestVars, fileVars, serviceVars>>

\* Variant: the limit check never succeeds.
LimitReached_Never(turns) == FALSE

\* Variant: the limit check is strict, so the conclusion comes one turn late.
LimitReached_Strict(turns) == turns > max_assistant_turns

\* assistant_turns >= max_assistant_turns
LimitReached(turns) == turns >= max_assistant_turns

Outcomes == {[ok |-> TRUE, content |-> c] : c \in Replies} \cup {[ok |-> FALSE]}

\* Variant: a failed call yields no text instead of the in-band error.
Answer_Silent(outcome) == IF outcome.ok THEN Strip(outcome.content) ELSE ""

\* try: answer = resp.choices[0].message.content.strip()
\* except Exception as e: answer = f"[error] OpenAI error: {e}"
Answer(outcome) == IF outcome.ok THEN Strip(outcome.content) ELSE CompletionError

UserEntry(text) == [speaker |-> "user", text |-> text]
AssistantEntry(text) == [speaker |-> "assistant", text |-> text]
\* Variant: the history gets a text that did not come over the connection.
UserMessage_Foreign(text) == [role |-> "user", content |-> "What did the other candidate say?"]

UserMessage(text) == [role |-> "user", content |-> text]
\* Variant: a reply enters the history under the user's role.
AssistantMessage_AsUser(text) == [role |-> "user", content |-> text]

AssistantMessage(text) == [role |-> "assistant", content |-> text]

\* Variant: the conclusion persists the log without the greeting.
ConclusionRecord_NoGreeting(rec, log, t) ==
    Update(rec, [messages |-> Tail(log), transcript |-> Some(Flatten(log)), updated_at |-> t])

\* What the conclusion writes into the record it found in the store.
ConclusionRecord(rec, log, t) ==
    Update(rec, [messages |-> log, transcript |-> Some(Flatten(log)), updated_at |-> t])

\* Variant: the disconnect flush replaces the record instead of merging.
DisconnectRecord_Replace(doc, id, job, exp, name, log, t) ==
    [ id |-> id,
      job_description |-> job,
      experience_required |-> exp,
      candidate_name |-> name,
      messages |-> log,
      transcript |-> Some(Flatten(log)),
      updated_at |-> t ]

\* Variant: the disconnect flush ends the transcript with a line break.
DisconnectRecord_TrailingBreak(doc, id, job, exp, name, log, t) ==
    Update(IF id \in DOMAIN doc THEN doc[id] ELSE <<>>,
           [ id |-> id,
             job_description |-> job,
             experience_required |-> exp,
             candidate_name |-> name,
             messages |-> log,
             transcript |-> Some(Flatten(log) \o "\n"),
             updated_at |-> t ])

\* Variant: the disconnect flush writes the default configuration.
DisconnectRecord_Defaults(doc, id, job, exp, name, log, t) ==
    Update(IF id \in DOMAIN doc THEN doc[id] ELSE <<>>,
           [ id |-> id,
             job_description |-> DEFAULT_JOB_DESCRIPTION,
             experience_required |-> DEFAULT_EXPERIENCE_REQUIRED,
             candidate_name |-> DEFAULT_CANDIDATE_NAME,
             messages |-> log,
             transcript |-> Some(Flatten(log)),
             updated_at |-> t ])

\* Variant: the disconnect flush flattens only the first entry of the log.
DisconnectRecord_FirstLineOnly(doc, id, job, exp, name, log, t) ==
    Update(IF id \in DOMAIN doc THEN doc[id] ELSE <<>>,
           [ id |-> id,
             job_description |-> job,
             experience_required |-> exp,
             candidate_name |-> name,
             messages |-> log,
             transcript |-> Some(Flatten(SubSeq(log, 1, 1))),
             updated_at |-> t ])

\* Variant: the disconnect flush stores the log but no transcript.
DisconnectRecord_NoTranscript(doc, id, job, exp, name, log, t) ==
    Update(IF id \in DOMAIN doc THEN doc[id] ELSE <<>>,
           [ id |-> id,
             job_description |-> job,
             experience_required |-> exp,
             candidate_name |-> name,
             messages |-> log,
             updated_at |-> t ])

\* rec = db.get(interview_id) or {}; rec.update({...})
DisconnectRecord(doc, id, job, exp, name, log, t) ==
    Update(IF id \in DOMAIN doc THEN doc[id] ELSE <<>>,
           [ id |-> id,
             job_description |-> job,
             experience_required |-> exp,
             candidate_name |-> name,
             messages |-> log,
             transcript |-> Some(Flatten(log)),
             updated_at |-> t ])

\* Variant: the loop never takes the ended branch.
Concluded_Never(s) == FALSE

\* if ended:
Concluded(s) == ended[s]

\* Variant: no text is rejected.
Rejected_Never(user_text) == FALSE

\* if not user_text:
Rejected(user_text) == user_text = ""

(***************************************************************************)
(* One pass of the loop from receive_text to the next await: an empty      *)
(* text is rejected; any other text is logged, and then either answered    *)
(* with the notice (ended) or forwarded to the completion client.          *)
(***************************************************************************)
ReceiveText(s, user_text) ==
    /\ pc[s] = "recv"
    /\ IF Rejected(user_text)
       THEN /\ out' = [to |-> s, frames |-> <<EmptyNotice>>]
            /\ UNCHANGED <<pc, messages, conversation_log, emitted, calls, budget>>
       ELSE /\ conversation_log' =
                [conversation_log EXCEPT ![s] = Append(@, UserEntry(user_text))]
            /\ messages' = [messages EXCEPT ![s] = Append(@, UserMessage(user_text))]
            /\ emitted' = [emitted EXCEPT ![s] = Append(@, Received(user_text))]
            /\ IF Concluded(s)
               THEN /\ budget.late < MaxLateTexts
                    /\ budget' = [budget EXCEPT !.late = @ + 1]
                    /\ out' = [to |-> s, frames |-> <<ConcludedNotice>>]
                    /\ UNCHANGED <<pc, calls>>
               ELSE /\ calls[s] < budget.cap
                    /\ SideTurnsAfter(s) <= MaxSideTurns
                    /\ UNCHANGED budget
                    /\ pc' = [pc EXCEPT ![s] = "call"]
                    /\ calls' = [calls EXCEPT ![s] = @ + 1]
                    /\ out' = [to |-> s, frames |-> <<>>]
    /\ UNCHANGED <<job_desc, years_exp, candidate_name, assistant_turns, ended, db, now, stored>>
    /\ UNCHANGED <<requestVars, fileVars, serviceVars>>

\* Variant: the server leaves the connection open after persisting.
AfterPersist_StaysOpen == "recv"

\* await websocket.close(): where the handler is after a successful persist.
AfterPersist == "closed"

(***************************************************************************)
(* The loop resumed after chat_completion: the answer (or the error text)  *)
(* is sent and logged and the turn counted; at the limit the closing       *)
(* statement follows, the transcript is persisted, and the socket closed.  *)
(* After the close the next receive_text raises and the handler ends.      *)
(***************************************************************************)
CompletionReturns(s, outcome, io) ==
    /\ pc[s] = "call"
    /\ outcome.ok \/ budget.failures < MaxFailures
    /\ outcome.ok => config.client
    /\ IoAllowed(io)
    /\ LET answer == Answer(outcome)
           log1 == Append(conversation_log[s], AssistantEntry(answer))
           msgs1 == Append(messages[s], AssistantMessage(answer))
           turns1 == assistant_turns[s] + 1
           log2 == Append(log1, AssistantEntry(closing))
           msgs2 == Append(msgs1, AssistantMessage(closing))
           failed == IF outcome.ok THEN 0 ELSE 1
       IN  /\ assistant_turns' = [assistant_turns EXCEPT ![s] = turns1]
           /\ IF LimitReached(turns1)
              THEN /\ conversation_log' = [conversation_log EXCEPT ![s] = log2]
                   /\ messages' = [messages EXCEPT ![s] = msgs2]
                   /\ emitted' = [emitted EXCEPT ![s] = @ \o <<Sent(answer), Sent(closing)>>]
                   /\ ended' = [ended EXCEPT ![s] = TRUE]
                   /\ IF io = "raise"
                      THEN /\ out' = [to |-> s, frames |-> <<answer, closing, SaveFailedNotice>>]
                           /\ pc' = [pc EXCEPT ![s] = "recv"]
                           /\ budget' = [budget EXCEPT !.failures = @ + failed, !.io = @ + 1]
                           /\ UNCHANGED storeVars
                      ELSE /\ IF s \in DOMAIN load_db
                              THEN save_db(Put(load_db, s, ConclusionRecord(load_db[s], log2, now)))
                              ELSE UNCHANGED storeVars
                           /\ out' = [to |-> s, frames |-> <<answer, closing, SavedNotice>>]
                           /\ pc' = [pc EXCEPT ![s] = AfterPersist]
                           /\ budget' = [budget EXCEPT !.failures = @ + failed]
              ELSE /\ io = "ok"
                   /\ conversation_log' = [conversation_log EXCEPT ![s] = log1]
                   /\ messages' = [messages EXCEPT ![s] = msgs1]
                   /\ emitted' = [emitted EXCEPT ![s] = Append(@, Sent(answer))]
                   /\ out' = [to |-> s, frames |-> <<answer>>]
                   /\ pc' = [pc EXCEPT ![s] = "recv"]
                   /\ budget' = [budget EXCEPT !.failures = @ + failed]
                   /\ UNCHANGED <<ended, db, now, stored>>
    /\ UNCHANGED <<job_desc, years_exp, candidate_name, calls>>
    /\ UNCHANGED <<requestVars, fileVars, serviceVars>>

\* The body of the except clause: the flush, or its swallowed error.
Flush(s, io) ==
    IF conversation_log[s] = <<>>
    THEN /\ io = "ok"
         /\ UNCHANGED <<db, now, stored, budget>>
    ELSE IF io = "raise"
    THEN /\ budget' = [budget EXCEPT !.io = @ + 1]
         /\ UNCHANGED storeVars
    ELSE /\ save_db(Put(load_db, s,
                  DisconnectRecord(load_db, s, job_desc[s], years_exp[s],
                                   candidate_name[s], conversation_log[s], now)))
         /\ UNCHANGED budget

(***************************************************************************)
(* except WebSocketDisconnect: the log is flushed into the record, merged  *)
(* with what the store holds; an error of the flush is swallowed.          *)
(***************************************************************************)
Disconnect(s, io) ==
    /\ pc[s] = "recv"
    /\ IoAllowed(io)
    /\ pc' = [pc EXCEPT ![s] = "done"]
    /\ Flush(s, io)
    /\ out' = [to |-> s, frames |-> <<>>]
    /\ UNCHANGED <<job_desc, years_exp, candidate_name, messages, conversation_log,
                   assistant_turns, ended, emitted, calls>>
    /\ UNCHANGED <<requestVars, fileVars, serviceVars>>

\* What receive_text does on the socket the server has closed: it raises an
\* error that ends the handler, or it reports the disconnect.
ClosedOutcomes == {"error", "disconnect"}

(***************************************************************************)
(* The loop comes back to receive_text after websocket.close().  An error  *)
(* other than WebSocketDisconnect leaves the handler at once; a            *)
(* WebSocketDisconnect runs the flush of the except clause.                *)
(***************************************************************************)
ReceiveOnClosed(s, how, io) ==
    /\ pc[s] = "closed"
    /\ IoAllowed(io)
    /\ IF how = "error"
       THEN /\ io = "ok"
            /\ pc' = [pc EXCEPT ![s] = "exited"]
            /\ UNCHANGED <<db, now, stored, budget>>
       ELSE /\ pc' = [pc EXCEPT ![s] = "done"]
            /\ Flush(s, io)
    /\ out' = [to |-> s, frames |-> <<>>]
    /\ UNCHANGED <<job_desc, years_exp, candidate_name, messages, conversation_log,
                   assistant_turns, ended, emitted, calls>>
    /\ UNCHANGED <<requestVars, fileVars, serviceVars>>

(***************************************************************************)
(* JSON values of a score response.  A dict is a function over its keys;   *)
(* every other value carries its type in the field t.                      *)
(***************************************************************************)
JInt(n) == [t |-> "int", n |-> n]
JStr(s) == [t |-> "str", s |-> s]
JBool(b) == [t |-> "bool", b |-> b]
JFloat(whole, tenths) == [t |-> "float", whole |-> whole, tenths |-> tenths]
JNull == [t |-> "null"]
JList(items) == [t |-> "list", items |-> items]

IsDict(x) == "t" \notin DOMAIN x

\* Python's truth value of a JSON value.
Falsy(x) ==
    IF IsDict(x) THEN DOMAIN x = {}
    ELSE \/ x.t = "null"
         \/ x.t = "int" /\ x.n = 0
         \/ x.t = "str" /\ x.s = ""
         \/ x.t = "bool" /\ ~x.b
         \/ x.t = "list" /\ x.items = <<>>
         \/ x.t = "float" /\ x.whole = 0 /\ x.tenths = 0

\* isinstance(val, int): bool is a subclass of int.
IsInstanceInt(x) == ~IsDict(x) /\ x.t \in {"int", "bool"}

\* The number an int (or a bool) compares as.
NumOf(x) == IF x.t = "int" THEN x.n ELSE IF x.b THEN 1 ELSE 0

\* str.isdigit() and int(str) on the strings the responses use.
DigitStrings == ("7" :> 7) @@ ("0" :> 0) @@ ("11" :> 11)
IsDigit(s) == s \in DOMAIN DigitStrings

Required == {"overall", "communication", "relevance", "technical", "confidence"}

\* _norm_bucket(d, key): the normalised bucket, or a raise.
NormBucket(d, key) ==
    LET got == IF key \in DOMAIN d THEN d[key] ELSE JNull
        bucket == IF Falsy(got) THEN <<>> ELSE got
    IN  IF ~IsDict(bucket) THEN [raised |-> TRUE]
        ELSE LET val0 == IF "value" \in DOMAIN bucket THEN bucket["value"] ELSE JNull
                 val == IF ~IsInstanceInt(val0) /\ ~IsDict(val0) /\ val0.t = "str"
                           /\ IsDigit(val0.s)
                        THEN JInt(DigitStrings[val0.s])
                        ELSE val0
             IN  IF ~IsInstanceInt(val) \/ NumOf(val) < 1 \/ NumOf(val) > 10
                 THEN [raised |-> TRUE]
                 ELSE [raised |-> FALSE, bucket |-> [value |-> val, scale |-> JInt(10)]]

\* _parse_score(raw): the parsed value, or None.
ParseScore(raw) ==
    IF raw.form \in {"json", "wrapped"} THEN Some(raw.data) ELSE None

(***************************************************************************)
(* _parse_score on the text of a response.  A text is a sequence of parts: *)
(* prose without braces, a well-formed JSON object, a brace that opens     *)
(* nothing well-formed, a brace that closes nothing.                       *)
(***************************************************************************)
Prose == [p |-> "prose"]
Object(data) == [p |-> "object", data |-> data]
StrayOpen == [p |-> "open"]
StrayClose == [p |-> "close"]

\* _json.loads(text): the value, or a raise.  The text parses when it is
\* one JSON object and nothing else.
Loads(text) ==
    IF Len(text) = 1 /\ text[1].p = "object"
    THEN [raised |-> FALSE, value |-> text[1].data]
    ELSE [raised |-> TRUE]

\* re.search(r"\{[\s\S]*\}", text): the match, or None.  The match begins
\* at the first "{" of the text and, the star being greedy, ends at the
\* last "}" after it.
Search(text) ==
    LET opens == {i \in 1..Len(text) : text[i].p \in {"object", "open"}}
        first == CHOOSE i \in opens : \A k \in opens : i <= k
        closes(i) == {j \in i..Len(text) :
                        \/ text[j].p = "close"
                        \/ text[j].p = "object"}
    IN  IF opens = {} \/ closes(first) = {} THEN None
        ELSE LET last == CHOOSE j \in closes(first) : \A k \in closes(first) : k <= j
             IN  Some(SubSeq(text, first, last))

\* _parse_score(text): the parsed value, or None.
ParseScoreText(text) ==
    IF ~Loads(text).raised THEN Some(Loads(text).value)
    ELSE LET m == Search(text) IN
         IF m = None THEN None
         ELSE IF Loads(m[1]).raised THEN None
         ELSE Some(Loads(m[1]).value)

\* The breakdown get_score builds from the response, or a raise.
Breakdown(raw) ==
    LET parsed == ParseScore(raw) IN
    IF parsed = None \/ ~IsDict(parsed[1]) THEN [raised |-> TRUE]
    ELSE LET data == parsed[1]
             steps0 == IF "next_steps" \in DOMAIN data /\ ~Falsy(data["next_steps"])
                       THEN data["next_steps"] ELSE JList(<<>>)
             steps == IF ~IsDict(steps0) /\ steps0.t = "list" THEN steps0 ELSE JList(<<>>)
         IN  IF \E k \in Required : NormBucket(data, k).raised
             THEN [raised |-> TRUE]
             ELSE [raised |-> FALSE,
                   breakdown |->
                       [k \in Required \cup {"next_steps"} |->
                           IF k = "next_steps" THEN steps ELSE NormBucket(data, k).bucket]]

(***************************************************************************)
(* The score responses of the runs: a well-formed response, and the same   *)
(* with one of its buckets replaced.                                       *)
(***************************************************************************)
GoodValue == ("overall" :> 10) @@ ("communication" :> 1) @@ ("relevance" :> 7)
             @@ ("technical" :> 7) @@ ("confidence" :> 7)

GoodBucket(k) == [value |-> JInt(GoodValue[k]), scale |-> JInt(10)]

TestValues ==
    { JInt(0), JInt(11), JStr("7"), JStr("11"), JStr("seven"),
      JFloat(7, 5), JBool(TRUE), JBool(FALSE), JNull }

TestBuckets ==
    { [value |-> v, scale |-> JInt(10)] : v \in TestValues }
    \cup { [scale |-> JInt(10)], [value |-> JInt(7), scale |-> JInt(5)], JNull, JInt(5) }

GoodData ==
    [k \in Required \cup {"next_steps"} |->
        IF k = "next_steps" THEN JList(<<"Practice system design.">>) ELSE GoodBucket(k)]

ScoreData ==
    {GoodData}
    \cup { [GoodData EXCEPT ![k] = b] : k \in Required, b \in TestBuckets }
    \cup { [k \in Required \ {m} |-> GoodBucket(k)] : m \in Required }

ScoreResponses ==
    { [form |-> "json", data |-> d] : d \in ScoreData }
    \cup { [form |-> "wrapped", data |-> GoodData],
           [form |-> "json", data |-> JList(<<>>)],
           [form |-> "prose"] }

SummaryContents == { Content("Strong backend skills.", TRUE), Content("", TRUE) }

\* A string field that is neither None nor empty.
\* Variant: every field counts as present.
TruthyText_Any(o) == TRUE

TruthyText(o) == o # None /\ o[1] # ""

\* Request r has not arrived yet; the requests arrive in the order of their numbers.
Fresh(r) == req[r].pc = "new" /\ \A q \in Reqs : q < r => req[q].pc # "new"

\* Variant: every response carries status 200.
Respond_AlwaysOK(r, kind, id, status, body) ==
    /\ req' = [req EXCEPT ![r] = DoneRequest]
    /\ resp' = [to |-> r, kind |-> kind, id |-> id, status |-> 200, body |-> body]

\* The handler of request r returns (or raises) an HTTP response.
Respond(r, kind, id, status, body) ==
    /\ req' = [req EXCEPT ![r] = DoneRequest]
    /\ resp' = [to |-> r, kind |-> kind, id |-> id, status |-> status, body |-> body]

\* The handler of request r is suspended in chat_completion, holding the
\* document it loaded.
Await(r, kind, id, doc) ==
    /\ req' = [req EXCEPT ![r] = [pc |-> "await", kind |-> kind, id |-> id, snap |-> doc]]
    /\ resp' = NoResponse

(***************************************************************************)
(* get_summary up to its await on chat_completion.                         *)
(***************************************************************************)
SummaryStart(r, id) ==
    /\ Fresh(r)
    /\ LET doc == load_db IN
       IF id \notin DOMAIN doc
       THEN /\ Respond(r, "summary", id, 404, None)
            /\ UNCHANGED derivedCalls
       ELSE IF TruthyText(Get(doc[id], "summary"))
       THEN /\ Respond(r, "summary", id, 200, doc[id]["summary"])
            /\ UNCHANGED derivedCalls
       ELSE IF ~TruthyText(Get(doc[id], "transcript"))
       THEN /\ Respond(r, "summary", id, 400, None)
            /\ UNCHANGED derivedCalls
       ELSE IF ~config.client
       THEN /\ Respond(r, "summary", id, 500, None)
            /\ UNCHANGED derivedCalls
       ELSE /\ Await(r, "summary", id, doc)
            /\ derivedCalls' = [derivedCalls EXCEPT ![id].summary = @ + 1]
    /\ UNCHANGED <<sessionVars, out, storeVars, thrown, budget, fileVars, serviceVars>>

\* The record get_summary saves: the item of its own copy of the document.
SummaryRecord(item, summary, t) ==
    Update(item, [summary |-> Some(summary), updated_at |-> t])

(***************************************************************************)
(* get_summary resumed: the summary is put into the document loaded before *)
(* the await, and that document is saved.                                  *)
(***************************************************************************)
SummaryReturn(r, outcome) ==
    /\ req[r].pc = "await"
    /\ req[r].kind = "summary"
    /\ LET id == req[r].id
           doc == req[r].snap
       IN  IF outcome.ok
           THEN /\ save_db(Put(doc, id, SummaryRecord(doc[id], Strip(outcome.content), now)))
                /\ Respond(r, "summary", id, 200, Some(Strip(outcome.content)))
           ELSE /\ Respond(r, "summary", id, 500, None)
                /\ UNCHANGED storeVars
    /\ thrown' = [thrown EXCEPT ![r] = ~outcome.ok]
    /\ UNCHANGED <<sessionVars, out, derivedCalls, budget, fileVars, serviceVars>>

\* get_score before its await: what it answers, or "call".
ScoreBegin(doc, id) ==
    IF id \notin DOMAIN doc THEN "404"
    ELSE IF "score_breakdown" \in DOMAIN doc[id] THEN "cached"
    ELSE IF ~TruthyText(Get(doc[id], "transcript")) THEN "400"
    ELSE "call"

(***************************************************************************)
(* get_score up to its await on chat_completion.                           *)
(***************************************************************************)
ScoreStart(r, id) ==
    /\ Fresh(r)
    /\ LET doc == load_db
           begin == ScoreBegin(doc, id)
       IN  IF begin = "404"
           THEN /\ Respond(r, "score", id, 404, None)
                /\ UNCHANGED derivedCalls
           ELSE IF begin = "cached"
           THEN /\ Respond(r, "score", id, 200, Some(doc[id]["score_breakdown"]))
                /\ UNCHANGED derivedCalls
           ELSE IF begin = "400"
           THEN /\ Respond(r, "score", id, 400, None)
                /\ UNCHANGED derivedCalls
           ELSE IF ~config.client
           THEN /\ Respond(r, "score", id, 500, None)
                /\ UNCHANGED derivedCalls
           ELSE /\ Await(r, "score", id, doc)
                /\ derivedCalls' = [derivedCalls EXCEPT ![id].score = @ + 1]
    /\ UNCHANGED <<sessionVars, out, storeVars, thrown, budget, fileVars, serviceVars>>

(***************************************************************************)
(* get_score_simple up to the await inside the get_score it calls.         *)
(***************************************************************************)
SimpleStart(r, id) ==
    /\ Fresh(r)
    /\ LET doc == load_db
           begin == ScoreBegin(doc, id)
       IN  IF id \notin DOMAIN doc
           THEN /\ Respond(r, "simple", id, 404, None)
                /\ UNCHANGED derivedCalls
           ELSE IF Get(doc[id], "score") # None
           THEN /\ Respond(r, "simple", id, 200, doc[id]["score"])
                /\ UNCHANGED derivedCalls
           ELSE IF begin = "cached"
           THEN /\ Respond(r, "simple", id, 200, Get(doc[id], "score"))
                /\ UNCHANGED derivedCalls
           ELSE IF begin = "400"
           THEN /\ Respond(r, "simple", id, 400, None)
                /\ UNCHANGED derivedCalls
           ELSE IF ~config.client
           THEN /\ Respond(r, "simple", id, 500, None)
                /\ UNCHANGED derivedCalls
           ELSE /\ Await(r, "simple", id, doc)
                /\ derivedCalls' = [derivedCalls EXCEPT ![id].score = @ + 1]
    /\ UNCHANGED <<sessionVars, out, storeVars, thrown, budget, fileVars, serviceVars>>

\* The record get_score saves: the item of its own copy of the document.
ScoreRecord(item, breakdown, t) ==
    Update(item, [score_breakdown |-> breakdown,
                  score |-> Some(breakdown["overall"]["value"]),
                  updated_at |-> t])

ScoreOutcomes == {[ok |-> TRUE, raw |-> raw] : raw \in ScoreResponses} \cup {[ok |-> FALSE]}

\* The score responses of the runs that explore the interleavings of requests.
BriefScoreResponses ==
    { [form |-> "json", data |-> GoodData],
      [form |-> "json",
       data |-> [GoodData EXCEPT !["technical"] = [value |-> JInt(11), scale |-> JInt(10)]]],
      [form |-> "prose"] }

BriefScoreOutcomes ==
    {[ok |-> TRUE, raw |-> raw] : raw \in BriefScoreResponses} \cup {[ok |-> FALSE]}

(***************************************************************************)
(* get_score resumed (alone, or inside get_score_simple): the response is  *)
(* parsed and validated; a valid breakdown is put into the document loaded *)
(* before the await, and that document is saved.                           *)
(***************************************************************************)
ScoreReturn(r, outcome) ==
    /\ req[r].pc = "await"
    /\ req[r].kind \in {"score", "simple"}
    /\ LET id == req[r].id
           doc == req[r].snap
           built == IF outcome.ok THEN Breakdown(outcome.raw) ELSE [raised |-> TRUE]
       IN  IF built.raised
           THEN /\ Respond(r, req[r].kind, id, 500, None)
                /\ UNCHANGED storeVars
           ELSE /\ save_db(Put(doc, id, ScoreRecord(doc[id], built.breakdown, now)))
                /\ IF req[r].kind = "score"
                   THEN Respond(r, req[r].kind, id, 200, Some(built.breakdown))
                   ELSE Respond(r, req[r].kind, id, 200, Some(built.breakdown["overall"]["value"]))
    /\ thrown' = [thrown EXCEPT ![r] = ~outcome.ok]
    /\ UNCHANGED <<sessionVars, out, derivedCalls, budget, fileVars, serviceVars>>

SummaryOutcomes == {[ok |-> TRUE, content |-> c] : c \in SummaryContents} \cup {[ok |-> FALSE]}

(***************************************************************************)
(* get_interview: the record of the id as the store holds it, or 404.      *)
(***************************************************************************)
GetInterview(r, id) ==
    /\ Fresh(r)
    /\ LET doc == load_db IN
       IF id \notin DOMAIN doc
       THEN Respond(r, "interview", id, 404, None)
       ELSE Respond(r, "interview", id, 200, Some(doc[id]))
    /\ UNCHANGED <<sessionVars, out, storeVars, derivedCalls, thrown, budget, fileVars,
                   serviceVars>>

(***************************************************************************)
(* tts_endpoint: GET /tts?text=...  The audio is synthesized into a        *)
(* temporary file, which the generator _iterfile streams and unlinks in    *)
(* its finally clause.                                                     *)
(***************************************************************************)
TtsTexts == {"", " ", "Hello."}

\* not text or not text.strip()
BlankText(text) == text \in {"", " "}

FreshSpeech(r) ==
    tts[r].pc = "new" /\ \A q \in TtsReqs : q < r => tts[q].pc # "new"

\* tts_endpoint raises an HTTPException and request r is over.
TtsRefuse(r, text, status) ==
    /\ tts' = [tts EXCEPT ![r] = [@ EXCEPT !.pc = "refused", !.text = text]]
    /\ resp' = [to |-> r, kind |-> "tts", id |-> 0, status |-> status, body |-> None]

\* tts_endpoint up to its await on synthesize_to_file.
TtsStart(r, text) ==
    /\ FreshSpeech(r)
    /\ IF BlankText(text) THEN TtsRefuse(r, text, 400)
       ELSE IF ~config.piper THEN TtsRefuse(r, text, 503)
       ELSE /\ tts' = [tts EXCEPT ![r] = [@ EXCEPT !.pc = "synth", !.text = text,
                                                  !.runs = @ + 1]]
            /\ resp' = NoResponse
    /\ UNCHANGED <<sessionVars, out, storeVars, req, derivedCalls, thrown, budget,
                   fileVars, config, extraction, recognition>>

\* How a run of piper ends in synthesize_to_file: with a non-empty file,
\* with a non-zero exit code, with an empty or missing file, or in the
\* TimeoutExpired of subprocess.run.
SynthOutcomes == {"ok", "exit", "empty", "timeout"}

\* The temporary file after synthesize_to_file: returned to the caller,
\* unlinked before None is returned, or left behind by the except clause.
SynthFile(outcome) ==
    IF outcome = "ok" THEN "exists"
    ELSE IF outcome = "timeout" THEN "left"
    ELSE "none"

\* Variant: only a non-zero exit code counts as a failure.
SynthFailed_ExitOnly(outcome) == outcome = "exit"

\* if not path: synthesize_to_file returned None.
SynthFailed(outcome) == outcome # "ok"

\* synthesize_to_file returns.  With None the endpoint raises 500; with a
\* path it returns the StreamingResponse around the generator _iterfile(),
\* of which no line has run yet.
TtsSynthesized(r, outcome) ==
    /\ tts[r].pc = "synth"
    /\ IF SynthFailed(outcome)
       THEN /\ tts' = [tts EXCEPT ![r] = [@ EXCEPT !.pc = "refused", !.synth = outcome,
                                                  !.file = SynthFile(outcome)]]
            /\ resp' = [to |-> r, kind |-> "tts", id |-> 0, status |-> 500, body |-> None]
       ELSE /\ tts' = [tts EXCEPT ![r] = [@ EXCEPT !.pc = "stream", !.synth = outcome,
                                                  !.file = SynthFile(outcome)]]
            /\ resp' = [to |-> r, kind |-> "tts", id |-> 0, status |-> 200,
                        body |-> None]
    /\ UNCHANGED <<sessionVars, out, storeVars, req, derivedCalls, thrown, budget,
                   fileVars, config, extraction, recognition>>

\* The response takes the next chunk of the generator: the first next()
\* opens the file, each one yields a chunk of it.
TtsChunk(r) ==
    /\ tts[r].pc \in {"stream", "reading"}
    /\ tts[r].read < MaxChunks
    /\ tts' = [tts EXCEPT ![r] = [@ EXCEPT !.pc = "reading", !.read = @ + 1]]
    /\ UNCHANGED <<sessionVars, out, storeVars, requestVars, budget, fileVars, config, extraction, recognition>>

\* The file is exhausted: the generator leaves the with block and its
\* finally clause unlinks the file.
TtsEnd(r) ==
    /\ tts[r].pc = "reading"
    /\ tts' = [tts EXCEPT ![r] = [@ EXCEPT !.pc = "finished", !.file = "deleted"]]
    /\ UNCHANGED <<sessionVars, out, storeVars, requestVars, budget, fileVars, config, extraction, recognition>>

\* The client goes away and the response drops the generator.  A generator
\* suspended at its yield is closed, which runs its finally clause; of a
\* generator that was never started no line runs, the finally clause included.
TtsAbort(r) ==
    /\ tts[r].pc \in {"stream", "reading"}
    /\ tts' = [tts EXCEPT ![r] = [@ EXCEPT !.pc = "aborted",
                                           !.file = IF tts[r].pc = "reading"
                                                    THEN "deleted" ELSE @]]
    /\ UNCHANGED <<sessionVars, out, storeVars, requestVars, budget, fileVars, config, extraction, recognition>>

TtsNext ==
    \/ \E r \in TtsReqs, text \in TtsTexts : TtsStart(r, text)
    \/ \E r \in TtsReqs, o \in SynthOutcomes : TtsSynthesized(r, o)
    \/ \E r \in TtsReqs : TtsChunk(r)
    \/ \E r \in TtsReqs : TtsEnd(r)
    \/ \E r \in TtsReqs : TtsAbort(r)

RequestNext ==
    \/ \E r \in Reqs, id \in Targets : SummaryStart(r, id)
    \/ \E r \in Reqs, o \in SummaryOutcomes : SummaryReturn(r, o)
    \/ \E r \in Reqs, id \in Targets : ScoreStart(r, id)
    \/ \E r \in Reqs, id \in Targets : SimpleStart(r, id)
    \/ \E r \in Reqs, o \in BriefScoreOutcomes : ScoreReturn(r, o)
    \/ \E r \in Reqs, id \in Targets : GetInterview(r, id)

SessionNext ==
    \/ \E s \in Ids, p \in LongRunParams, io \in IoOutcomes : Connect(s, p, io)
    \/ \E s \in Ids, text \in UserTexts : ReceiveText(s, text)
    \/ \E s \in Ids, o \in Outcomes, io \in IoOutcomes : CompletionReturns(s, o, io)
    \/ \E s \in Ids, io \in IoOutcomes : Disconnect(s, io)
    \/ \E s \in Ids, how \in ClosedOutcomes, io \in IoOutcomes : ReceiveOnClosed(s, how, io)

Next == SessionNext

Spec == Init /\ [][Next]_vars

(***************************************************************************)
(* One interview with a client that stays: it never disconnects, and it    *)
(* goes on sending texts, so a non-empty text arrives whenever the handler *)
(* waits in receive_text; and every completion call returns, with a reply  *)
(* or with an error.                                                       *)
(***************************************************************************)
Staying == 1

NextStaying ==
    \/ \E p \in LongRunParams, io \in IoOutcomes : Connect(Staying, p, io)
    \/ \E text \in UserTexts : ReceiveText(Staying, text)
    \/ \E o \in Outcomes, io \in IoOutcomes : CompletionReturns(Staying, o, io)
    \/ \E how \in ClosedOutcomes, io \in IoOutcomes : ReceiveOnClosed(Staying, how, io)

SpecStaying ==
    /\ Init
    /\ [][NextStaying]_vars
    /\ WF_vars(\E text \in UserTexts \ {""} : ReceiveText(Staying, text))
    /\ WF_vars(\E o \in Outcomes, io \in IoOutcomes : CompletionReturns(Staying, o, io))

(***************************************************************************)
(* The server with its derived-analysis requests: short interviews (the    *)
(* clients leave early), and summary and score requests beside them.       *)
(***************************************************************************)
InitRequests ==
    /\ Start
    /\ budget = [cap |-> MaxShortTurns, failures |-> MaxFailures, io |-> MaxIOErrors,
                 late |-> 0]

ShortSessionNext ==
    \/ \E s \in Ids, p \in LongRunParams, io \in IoOutcomes : Connect(s, p, io)
    \/ \E s \in Ids, text \in UserTexts : ReceiveText(s, text)
    \/ \E s \in Ids, o \in Outcomes, io \in IoOutcomes : CompletionReturns(s, o, io)
    \/ \E s \in Ids, io \in IoOutcomes : Disconnect(s, io)

NextRequests == ShortSessionNext \/ RequestNext

SpecRequests == InitRequests /\ [][NextRequests]_vars

(***************************************************************************)
(* The end of an interview and what follows it.  The run starts where the  *)
(* first session stands one exchange before the limit (a state the full    *)
(* runs reach): its last turn, the conclusion and the close, a second      *)
(* client with any parameters, and the requests on the records.            *)
(***************************************************************************)
LateText == "I build APIs."

LateReply == "Tell me more."

\* The entries of the log that n exchanges have added after the greeting.
RECURSIVE Exchanges(_)
Exchanges(n) ==
    IF n = 0 THEN <<>>
    ELSE Exchanges(n - 1) \o <<UserEntry(LateText), AssistantEntry(LateReply)>>

\* conversation_log of a session with the given name after n exchanges.
LateLog(name, n) == <<AssistantEntry(Greeting(name))>> \o Exchanges(n)

\* messages of that session: the system prompt, then the log by roles.
LateMessages(job, exp, name, n) ==
    LET log == LateLog(name, n) IN
    << [role |-> "system", content |-> build_system_prompt(job, exp)] >>
    \o [i \in 1..Len(log) |-> [role |-> log[i].speaker, content |-> log[i].text]]

\* Session 1, connected with the parameters of the long runs, has sent its
\* 29th reply and waits in receive_text; nothing else has happened.
LateSession ==
    LET p == CHOOSE q \in LongRunParams : TRUE
        job == StrOr(p.job, DEFAULT_JOB_DESCRIPTION)
        exp == StrOr(p.exp, DEFAULT_EXPERIENCE_REQUIRED)
        name == StrOr(p.name, DEFAULT_CANDIDATE_NAME)
        n == max_assistant_turns - 1
    IN  /\ pc = [s \in Ids |-> IF s = 1 THEN "recv" ELSE "idle"]
        /\ job_desc = [s \in Ids |-> IF s = 1 THEN job ELSE ""]
        /\ years_exp = [s \in Ids |-> IF s = 1 THEN exp ELSE ""]
        /\ candidate_name = [s \in Ids |-> IF s = 1 THEN name ELSE ""]
        /\ messages = [s \in Ids |-> IF s = 1 THEN LateMessages(job, exp, name, n) ELSE <<>>]
        /\ conversation_log = [s \in Ids |-> IF s = 1 THEN LateLog(name, n) ELSE <<>>]
        /\ assistant_turns = [s \in Ids |-> IF s = 1 THEN n ELSE 0]
        /\ ended = [s \in Ids |-> FALSE]
        /\ out = [to |-> 1, frames |-> <<LateReply>>]
        /\ emitted = [s \in Ids |-> IF s = 1 THEN LateLog(name, n) ELSE <<>>]
        /\ calls = [s \in Ids |-> IF s = 1 THEN n ELSE 0]
        /\ db = Put(<<>>, 1, InitialRecord(1, job, exp, name, 0))
        /\ now = 1
        /\ stored = {1}

InitLate ==
    /\ LateSession
    /\ req = [r \in Reqs |-> NoRequest]
    /\ resp = NoResponse
    /\ derivedCalls = [i \in Ids |-> [summary |-> 0, score |-> 0]]
    /\ thrown = [r \in Reqs |-> FALSE]
    /\ saving = NotSaving
    /\ loading = NotLoading
    /\ tts = [r \in TtsReqs |-> NoSpeech]
    /\ Configured
    /\ extraction = NoExtraction
    /\ recognition = NoRecognition
    /\ paths = [p \in {DB_PATH, tmp_path} |-> 0]
    /\ inodes = <<>>
    /\ budget = [cap |-> max_assistant_turns, failures |-> MaxFailures,
                 io |-> MaxIOErrors, late |-> MaxLateTexts]

NextLate ==
    \/ \E s \in Ids, p \in QueryParams, io \in IoOutcomes : Connect(s, p, io)
    \/ \E s \in Ids, text \in UserTexts : ReceiveText(s, text)
    \/ \E s \in Ids, o \in Outcomes, io \in IoOutcomes : CompletionReturns(s, o, io)
    \/ \E s \in Ids, io \in IoOutcomes : Disconnect(s, io)
    \/ \E s \in Ids, how \in ClosedOutcomes, io \in IoOutcomes : ReceiveOnClosed(s, how, io)
    \/ RequestNext

SpecLate == InitLate /\ [][NextLate]_vars

(***************************************************************************)
(* A whole interview beside a request on another record.  Session 1 runs   *)
(* to the limit; the other clients leave after the greeting; summary       *)
(* requests are made on the records, and their completion calls may last   *)
(* as long as the interview.                                               *)
(***************************************************************************)
InitOverlap ==
    /\ Start
    /\ budget = [cap |-> max_assistant_turns, failures |-> MaxFailures,
                 io |-> MaxIOErrors, late |-> MaxLateTexts]

NextOverlap ==
    \/ \E s \in Ids, p \in LongRunParams, io \in IoOutcomes : Connect(s, p, io)
    \/ \E text \in UserTexts : ReceiveText(Staying, text)
    \/ \E o \in Outcomes, io \in IoOutcomes : CompletionReturns(Staying, o, io)
    \/ \E s \in Ids, io \in IoOutcomes : Disconnect(s, io)
    \/ \E how \in ClosedOutcomes, io \in IoOutcomes : ReceiveOnClosed(Staying, how, io)
    \/ \E r \in Reqs, id \in Targets : SummaryStart(r, id)
    \/ \E r \in Reqs, o \in SummaryOutcomes : SummaryReturn(r, o)

SpecOverlap == InitOverlap /\ [][NextOverlap]_vars

(***************************************************************************)
(* The service as started in any environment: with or without the         *)
(* completion client, with or without the synthesis adapter.  Clients      *)
(* that leave after the greeting, the record requests and the speech       *)
(* requests.                                                               *)
(***************************************************************************)
InitService ==
    /\ StartMemory
    /\ config \in [client : BOOLEAN, piper : BOOLEAN]
    /\ extraction = NoExtraction
    /\ recognition = NoRecognition
    /\ paths = [p \in {DB_PATH, tmp_path} |-> 0]
    /\ inodes = <<>>
    /\ budget = [cap |-> 0, failures |-> 0, io |-> 0, late |-> 0]

NextService ==
    \/ \E s \in Ids, p \in LongRunParams, io \in IoOutcomes : Connect(s, p, io)
    \/ \E s \in Ids, io \in IoOutcomes : Disconnect(s, io)
    \/ RequestNext
    \/ TtsNext

SpecService == InitService /\ [][NextService]_vars

(***************************************************************************)
(* The score requests alone, over every score response: clients that       *)
(* leave after the greeting, and score and score_simple requests.          *)
(***************************************************************************)
NextScore ==
    \/ \E s \in Ids, p \in LongRunParams, io \in IoOutcomes : Connect(s, p, io)
    \/ \E s \in Ids, io \in IoOutcomes : Disconnect(s, io)
    \/ \E r \in Reqs, id \in Targets : ScoreStart(r, id)
    \/ \E r \in Reqs, id \in Targets : SimpleStart(r, id)
    \/ \E r \in Reqs, o \in ScoreOutcomes : ScoreReturn(r, o)

SpecScore == InitRequests /\ [][NextScore]_vars

(***************************************************************************)
(* _parse_score as a function of the response text: the text is any        *)
(* sequence of a few parts, and the function is applied to it.             *)
(***************************************************************************)
MaxParts == 3

\* A second well-formed object, other than the breakdown.
OtherData == [GoodData EXCEPT !["overall"] = [value |-> JInt(3), scale |-> JInt(10)]]

Parts == {Prose, StrayOpen, StrayClose, Object(GoodData), Object(OtherData)}

ScoreTexts == UNION {[1..n -> Parts] : n \in 1..MaxParts}

InitParse ==
    /\ StartMemory
    /\ Configured
    /\ paths = [p \in {DB_PATH, tmp_path} |-> 0]
    /\ inodes = <<>>
    /\ budget = [cap |-> 0, failures |-> 0, io |-> 0, late |-> 0]
    /\ \E text \in ScoreTexts : extraction = [pc |-> "raw", text |-> text, value |-> None]
    /\ recognition = NoRecognition

\* data = _parse_score(raw)
ParseScoreCall ==
    /\ extraction.pc = "raw"
    /\ extraction' = [extraction EXCEPT !.pc = "parsed",
                                        !.value = ParseScoreText(extraction.text)]
    /\ UNCHANGED <<sessionVars, out, storeVars, requestVars, budget, fileVars, config, tts,
                   recognition>>

NextParse == ParseScoreCall

SpecParse == InitParse /\ [][NextParse]_vars

(***************************************************************************)
(* SpeechToText.listen_and_recognize (src/speech_to_text.py): one capture  *)
(* from the microphone, then one dispatch to the recognizer named by the   *)
(* backend.  The call is made with any backend name and any set of the     *)
(* keyword arguments the recognizers know; the microphone and the          *)
(* recognition service answer in any of their ways.                        *)
(***************************************************************************)
Backends == {"google", "sphinx", "azure", "bing", "whisper"}

\* backend: Optional[str] = None; the empty string stands for None (both
\* are falsy in `backend or self.default_backend`).
BackendArgs == Backends \cup {""}

\* default_backend of the constructor: its default, or a name given.
DefaultBackends == {"google", "whisper"}

Keywords == {"language", "key", "region"}

\* What recognizer.listen does: it returns audio, raises WaitTimeoutError,
\* or raises something else.
ListenOutcomes == {"audio", "timeout", "error"}

\* What the library's recognize_<backend> does: it returns text, raises
\* UnknownValueError, raises RequestError, or raises something else.
RecognizerOutcomes == {"text", "unknown", "request", "other"}

RecognizedText == "hello"

\* The keyword parameters of recognize_<backend>: the ones without a
\* default, and all of them.
Signature(backend) ==
    IF backend = "google" THEN [required |-> {}, accepted |-> {"language"}]
    ELSE IF backend = "azure"
    THEN [required |-> {"key", "region"}, accepted |-> {"key", "region", "language"}]
    ELSE [required |-> {"key"}, accepted |-> {"key", "language"}]

\* self.recognize_<backend>(audio, **kwargs): the call binds when every
\* required parameter is given and no unknown one is (a TypeError
\* otherwise, raised by the call itself).  recognize_sphinx is called
\* without the keyword arguments.
Binds(backend, kwargs) ==
    \/ backend = "sphinx"
    \/ /\ Signature(backend).required \subseteq kwargs
       /\ kwargs \subseteq Signature(backend).accepted

\* backend = backend or self.default_backend
Effective(backend, default) == StrOr(backend, default)

Supported(backend) == backend \in {"google", "sphinx", "azure", "bing"}

\* audio = self.listen_for_audio(timeout, phrase_time_limit); if audio is
\* None: return None
ListenForAudio(outcome) ==
    /\ recognition.pc = "called"
    /\ recognition' =
           IF outcome = "audio"
           THEN [recognition EXCEPT !.pc = "heard", !.heard = outcome]
           ELSE [recognition EXCEPT !.pc = "returned", !.heard = outcome, !.result = None]
    /\ UNCHANGED <<sessionVars, out, storeVars, requestVars, budget, fileVars, config, tts,
                   extraction>>

\* return self.recognize_speech(audio, backend, **kwargs): the dispatch,
\* and the recognizer's try block with its three except clauses.
RecognizeSpeech(outcome) ==
    /\ recognition.pc = "heard"
    /\ LET backend == Effective(recognition.backend, recognition.default) IN
       recognition' =
           IF ~Supported(backend)
           THEN [recognition EXCEPT !.pc = "returned", !.result = None]
           ELSE IF ~Binds(backend, recognition.kwargs)
           THEN [recognition EXCEPT !.pc = "raised"]
           ELSE [recognition EXCEPT
                     !.pc = "returned",
                     !.runs = @ + 1,
                     !.reported = outcome,
                     !.result = IF outcome = "text" THEN Some(RecognizedText) ELSE None]
    /\ UNCHANGED <<sessionVars, out, storeVars, requestVars, budget, fileVars, config, tts,
                   extraction>>

InitSpeech ==
    /\ StartMemory
    /\ Configured
    /\ extraction = NoExtraction
    /\ paths = [p \in {DB_PATH, tmp_path} |-> 0]
    /\ inodes = <<>>
    /\ budget = [cap |-> 0, failures |-> 0, io |-> 0, late |-> 0]
    /\ \E backend \in BackendArgs, default \in DefaultBackends, kwargs \in SUBSET Keywords :
           recognition = [NoRecognition EXCEPT !.pc = "called", !.backend = backend,
                                               !.default = default, !.kwargs = kwargs]

NextSpeech ==
    \/ \E o \in ListenOutcomes : ListenForAudio(o)
    \/ \E o \in RecognizerOutcomes : RecognizeSpeech(o)

SpecSpeech == InitSpeech /\ [][NextSpeech]_vars

(***************************************************************************)
(* save_db and load_db step by step on the files.  The handlers run on one *)
(* event loop and save_db does not await, so one save at a time is under   *)
(* way; the process may die at any step of it, and the files stay as they  *)
(* are.  A load may open the file at any moment and read it later.         *)
(***************************************************************************)
MaxSaves == 3
MaxCrashes == 1

\* The text of the file at DB_PATH, <<>> when there is no file.
FileText == IF paths[DB_PATH] = 0 THEN <<>> ELSE inodes[paths[DB_PATH]]

\* save_db(doc) begins: open(SavePath, "w") creates the file or truncates it.
OpenForWrite(doc) ==
    LET old == paths[SavePath]
        fh == IF old = 0 THEN Len(inodes) + 1 ELSE old
    IN  /\ inodes' = IF old = 0 THEN Append(inodes, <<>>) ELSE [inodes EXCEPT ![old] = <<>>]
        /\ paths' = [paths EXCEPT ![SavePath] = fh]
        /\ saving' = [pc |-> "dump", doc |-> doc, fh |-> fh, pos |-> 0]

\* A handler loads the document, puts the record of session s into it and
\* enters save_db: open(SavePath, "w") creates the file or truncates it.
SaveOpen(s) ==
    /\ saving.pc = "idle"
    /\ now < MaxSaves
    /\ OpenForWrite(Put(Parse(FileText), s,
                        InitialRecord(s, DEFAULT_JOB_DESCRIPTION, DEFAULT_EXPERIENCE_REQUIRED,
                                      DEFAULT_CANDIDATE_NAME, now)))
    /\ now' = now + 1
    /\ UNCHANGED <<sessionVars, out, db, stored, requestVars, serviceVars, budget, loading>>

\* json.dump(db, f, ...): the next token reaches the file.
SaveWrite ==
    /\ saving.pc = "dump"
    /\ saving.pos < Len(Serialize(saving.doc))
    /\ inodes' = [inodes EXCEPT ![saving.fh] = Append(@, Serialize(saving.doc)[saving.pos + 1])]
    /\ saving' = [saving EXCEPT !.pos = @ + 1]
    /\ UNCHANGED <<sessionVars, out, storeVars, requestVars, serviceVars, budget, paths, loading>>

\* The with block ends: the file is complete and closed.
SaveClose ==
    /\ saving.pc = "dump"
    /\ saving.pos = Len(Serialize(saving.doc))
    /\ saving' = [saving EXCEPT !.pc = "replace"]
    /\ UNCHANGED <<sessionVars, out, storeVars, requestVars, serviceVars, budget, paths, inodes, loading>>

\* os.replace(tmp_path, DB_PATH): DB_PATH names the written file from now on.
SaveReplace ==
    /\ saving.pc = "replace"
    /\ paths' = [p \in {DB_PATH, tmp_path} |->
                    IF p = DB_PATH THEN paths[SavePath]
                    ELSE IF p = SavePath THEN 0 ELSE paths[p]]
    /\ saving' = NotSaving
    /\ db' = saving.doc
    /\ stored' = stored \cup DOMAIN saving.doc
    /\ UNCHANGED <<sessionVars, out, now, requestVars, serviceVars, budget, inodes, loading>>

\* The process dies inside save_db and is started again; the files stay.
Crash ==
    /\ saving.pc # "idle"
    /\ budget.io < MaxCrashes
    /\ budget' = [budget EXCEPT !.io = @ + 1]
    /\ saving' = NotSaving
    /\ UNCHANGED <<sessionVars, out, storeVars, requestVars, serviceVars, paths, inodes, loading>>

\* load_db: open(DB_PATH, "r"); FileNotFoundError gives the empty document.
LoadOpen ==
    /\ loading.pc # "open"
    /\ loading' = [pc |-> IF paths[DB_PATH] = 0 THEN "done" ELSE "open",
                   fh |-> paths[DB_PATH], content |-> <<>>, previous |-> db]
    /\ UNCHANGED <<sessionVars, out, storeVars, requestVars, serviceVars, budget, paths, inodes, saving>>

\* load_db: f.read() on the file it opened.
LoadRead ==
    /\ loading.pc = "open"
    /\ loading' = [loading EXCEPT !.pc = "done", !.content = inodes[loading.fh]]
    /\ UNCHANGED <<sessionVars, out, storeVars, requestVars, serviceVars, budget, paths, inodes, saving>>

InitStore ==
    /\ Start
    /\ budget = [cap |-> 0, failures |-> 0, io |-> 0, late |-> 0]

NextStore ==
    \/ \E s \in Ids : SaveOpen(s)
    \/ SaveWrite
    \/ SaveClose
    \/ SaveReplace
    \/ Crash
    \/ LoadOpen
    \/ LoadRead

SpecStore == InitStore /\ [][NextStore]_vars

(***************************************************************************)
(* load_db and save_db as functions of the backing file: the file starts   *)
(* in any of the conditions a document can be found in, handlers save      *)
(* mappings of every shape of record, and load what is there.              *)
(***************************************************************************)
MaxRoundTrips == 2

\* A log as a disconnect after one answer leaves it.
StoredLog == << AssistantEntry(Greeting("Ada")), UserEntry("I build APIs.") >>

RecordKinds == {"initial", "flushed", "scored"}

\* The record of session id as the session start, the flush and the
\* derived-analysis requests leave it.
RecordOf(id, kind) ==
    LET initial == InitialRecord(id, "Backend Engineer", "4", "Ada", 0)
        flushed == DisconnectRecord(Put(<<>>, id, initial), id, "Backend Engineer", "4",
                                    "Ada", StoredLog, 1)
        scored == ScoreRecord(SummaryRecord(flushed, "Strong backend skills.", 2),
                              Breakdown([form |-> "json", data |-> GoodData]).breakdown, 3)
    IN  IF kind = "initial" THEN initial ELSE IF kind = "flushed" THEN flushed ELSE scored

\* Every mapping of session ids to such records.
Mappings ==
    { [id \in {i \in Ids : k[i] # "none"} |-> RecordOf(id, k[id])] :
          k \in [Ids -> RecordKinds \cup {"none"}] }

\* The backing document as the server may find it: absent, empty, blank,
\* cut short, not UTF-8, or a well-formed document (bare or padded).
BackingFiles ==
    { [exists |-> FALSE, content |-> <<>>] }
    \cup { [exists |-> TRUE, content |-> c] :
             c \in { <<>>,
                     <<Space>>,
                     <<OpenBrace>>,
                     <<OpenBrace, Item(1, RecordOf(1, "initial"))>>,
                     <<BadBytes>>,
                     <<OpenBrace, BadBytes, CloseBrace>>,
                     Serialize(Put(<<>>, 1, RecordOf(1, "flushed"))),
                     <<Space>> \o Serialize(Put(<<>>, 1, RecordOf(1, "initial"))) \o <<Space>> } }

InitFiles ==
    /\ StartMemory
    /\ Configured
    /\ extraction = NoExtraction
    /\ recognition = NoRecognition
    /\ budget = [cap |-> 0, failures |-> 0, io |-> 0, late |-> 0]
    /\ \E f \in BackingFiles :
          IF f.exists
          THEN paths = [p \in {DB_PATH, tmp_path} |-> IF p = DB_PATH THEN 1 ELSE 0]
               /\ inodes = <<f.content>>
          ELSE paths = [p \in {DB_PATH, tmp_path} |-> 0] /\ inodes = <<>>

\* A handler calls save_db(m).
SaveEnter(m) ==
    /\ saving.pc = "idle"
    /\ now < MaxRoundTrips
    /\ OpenForWrite(m)
    /\ now' = now + 1
    /\ UNCHANGED <<sessionVars, out, db, stored, requestVars, serviceVars, budget, loading>>

\* A handler calls load_db(): what it got, and whether a save came before.
LoadCall ==
    /\ saving.pc = "idle"
    /\ LET res == LoadResult(paths[DB_PATH] # 0, FileText)
       IN  loading' = [pc |-> IF res.raised THEN "raised" ELSE "returned",
                       fh |-> paths[DB_PATH],
                       content |-> FileText,
                       previous |-> db,
                       value |-> res.value,
                       saved |-> now > 0]
    /\ UNCHANGED <<sessionVars, out, storeVars, requestVars, serviceVars, budget, paths, inodes, saving>>

NextFiles ==
    \/ \E m \in Mappings : SaveEnter(m)
    \/ SaveWrite
    \/ SaveClose
    \/ SaveReplace
    \/ LoadCall

SpecFiles == InitFiles /\ [][NextFiles]_vars

(***************************************************************************)
(* Claims.                                                                 *)
(***************************************************************************)

\* C1: whenever the store holds a transcript for a session, the messages
\* persisted with it are exactly the interview texts that crossed that
\* session's connection, in the order they were sent and received: none
\* dropped, duplicated or reordered.
C1_PersistedMessagesInWireOrder ==
    \A s \in Ids :
        (s \in DOMAIN db /\ db[s]["transcript"] # None) => db[s]["messages"] = emitted[s]

\* A session ran to the limit and its full log (greeting, 30 exchanges,
\* closing) is in the store.
C1_Witness ==
    \E s \in Ids :
        /\ pc[s] = "closed"
        /\ s \in DOMAIN db
        /\ Len(db[s]["messages"]) = 2 * max_assistant_turns + 2
        /\ db[s]["messages"][Len(db[s]["messages"])] = Sent(closing)

\* The closing statement crossed the connection of session s.
ClosingEmitted(s) == \E i \in 1..Len(emitted[s]) : emitted[s][i] = Sent(closing)

\* C2, as stated: the session is concluded exactly when its assistant
\* replies reach the limit, and then the closing statement has been emitted
\* and the transcript is in the store; no session issues more than the
\* limit of completion calls.
C2_AsStated ==
    \A s \in Ids :
        /\ ended[s] <=> assistant_turns[s] >= max_assistant_turns
        /\ ended[s] => /\ ClosingEmitted(s)
                       /\ s \in DOMAIN db
                       /\ db[s]["transcript"] # None
        /\ calls[s] <= max_assistant_turns

\* C2, amended: the session is concluded, and the closing statement
\* emitted, exactly when the assistant replies reach the limit (never
\* beyond it, never with more completion calls); the transcript is then in
\* the store when the store access raised no error and the record was there.
C2_ConcludedExactlyAtLimit ==
    \A s \in Ids :
        /\ assistant_turns[s] <= max_assistant_turns
        /\ ended[s] <=> assistant_turns[s] = max_assistant_turns
        /\ ended[s] <=> ClosingEmitted(s)
        /\ calls[s] <= max_assistant_turns
        /\ (pc[s] = "closed" /\ s \in DOMAIN db) =>
               /\ db[s]["messages"] = conversation_log[s]
               /\ db[s]["transcript"] = Some(Flatten(conversation_log[s]))

\* A session concluded and its transcript was persisted.
C2_Witness ==
    \E s \in Ids :
        /\ ended[s]
        /\ pc[s] = "closed"
        /\ calls[s] = max_assistant_turns
        /\ s \in DOMAIN db
        /\ db[s]["transcript"] # None

\* C3, as stated: once the session is concluded, every inbound text is
\* answered with the fixed notice and issues no completion call.
C3_AsStated ==
    [][\A s \in Ids, text \in UserTexts :
          (ended[s] /\ ReceiveText(s, text)) =>
              /\ out' = [to |-> s, frames |-> <<ConcludedNotice>>]
              /\ calls' = calls
              /\ pc'[s] = "recv"]_vars

\* C3, amended: once the session is concluded, every non-empty inbound
\* text is answered with the fixed notice and issues no completion call.
C3_ConcludedAnswersNotice ==
    [][\A s \in Ids, text \in UserTexts \ {""} :
          (ended[s] /\ ReceiveText(s, text)) =>
              /\ out' = [to |-> s, frames |-> <<ConcludedNotice>>]
              /\ calls' = calls
              /\ pc'[s] = "recv"]_vars

\* A concluded session received a text and answered it with the notice.
C3_Witness ==
    \E s \in Ids :
        /\ ended[s]
        /\ out = [to |-> s, frames |-> <<ConcludedNotice>>]
        /\ conversation_log[s][Len(conversation_log[s])].speaker = "user"

\* C4: in every run that reaches the limit the client receives the closing
\* statement after the 30th reply and the server then closes the
\* connection, also when persisting the transcript fails.
C4_ClosingThenClose ==
    [][\A s \in Ids :
          (~ended[s] /\ ended'[s]) =>
              /\ out'.to = s
              /\ Len(out'.frames) = 3
              /\ out'.frames[2] = closing
              /\ pc'[s] = "closed"]_vars

\* The client of session s disconnects before the session is concluded.
EarlyDisconnect(s) == pc[s] = "recv" /\ pc'[s] = "done" /\ ~ended[s]

\* The session's record is in the store with the session's configuration.
ConfigStored(doc, s) ==
    /\ s \in DOMAIN doc
    /\ doc[s]["job_description"] = job_desc[s]
    /\ doc[s]["experience_required"] = years_exp[s]
    /\ doc[s]["candidate_name"] = candidate_name[s]

\* The session's record holds the session's log and its flattening.
LogStored(doc, s) ==
    /\ s \in DOMAIN doc
    /\ doc[s]["messages"] = conversation_log[s]
    /\ doc[s]["transcript"] = Some(Flatten(conversation_log[s]))

\* C5, as stated: after a disconnect before the conclusion the store holds
\* the session's record with everything accumulated so far and its
\* flattening, and (also before any turn) its configuration fields.
C5_AsStated ==
    [][\A s \in Ids : EarlyDisconnect(s) => (LogStored(db', s) /\ ConfigStored(db', s))]_vars

\* C5, amended: after a disconnect before the conclusion the store holds
\* the session's record with its configuration fields, also when the
\* disconnect comes before any turn; when the flush raised no store error
\* the record also holds everything accumulated so far and its flattening.
C5_DisconnectFlushesLog ==
    [][\A s \in Ids :
          EarlyDisconnect(s) =>
              /\ ConfigStored(db', s)
              /\ budget'.io = budget.io => LogStored(db', s)]_vars

\* A client left in the middle of the interview and the partial log, ending
\* with an assistant reply, is in the store.
C5_Witness ==
    \E s \in Ids :
        /\ pc[s] = "done"
        /\ ~ended[s]
        /\ assistant_turns[s] >= 1
        /\ LogStored(db, s)
        /\ ConfigStored(db, s)

\* The completion call of session s returns with a failure.
CompletionFails(s) ==
    pc[s] = "call" /\ pc'[s] # "call" /\ budget'.failures = budget.failures + 1

\* C6: a failed completion call is sent to the client as an assistant
\* message, logged like a reply and counted as a turn, and below the limit
\* the session stays open, waiting for the next inbound message.
C6_FailureIsInBandReply ==
    [][\A s \in Ids :
          CompletionFails(s) =>
              LET n == Len(conversation_log[s])
                  m == Len(messages[s])
              IN  /\ out'.to = s
                  /\ out'.frames[1] = CompletionError
                  /\ Len(conversation_log'[s]) > n
                  /\ SubSeq(conversation_log'[s], 1, n + 1)
                         = Append(conversation_log[s], AssistantEntry(CompletionError))
                  /\ SubSeq(messages'[s], 1, m + 1)
                         = Append(messages[s], AssistantMessage(CompletionError))
                  /\ assistant_turns'[s] = assistant_turns[s] + 1
                  /\ assistant_turns'[s] < max_assistant_turns =>
                         /\ pc'[s] = "recv"
                         /\ ~ended'[s]
                         /\ out'.frames = <<CompletionError>>]_vars

\* A completion call failed below the limit and the session then took the
\* next inbound message.
C6_Witness ==
    \E s \in Ids :
        /\ pc[s] = "call"
        /\ budget.failures = 1
        /\ Len(conversation_log[s]) >= 2
        /\ conversation_log[s][Len(conversation_log[s]) - 1] = AssistantEntry(CompletionError)

\* The claim's reading of a score response: some required field is missing,
\* is not a number, or is a number outside [1,10] (a string of digits
\* counts as the number it spells).
ValueOutOfPolicy(v) ==
    IF IsDict(v) THEN TRUE
    ELSE IF v.t = "int" THEN v.n < 1 \/ v.n > 10
    ELSE IF v.t = "float" THEN v.whole < 1 \/ v.whole > 10 \/ (v.whole = 10 /\ v.tenths > 0)
    ELSE IF v.t = "str" THEN ~IsDigit(v.s) \/ DigitStrings[v.s] < 1 \/ DigitStrings[v.s] > 10
    ELSE TRUE

InvalidScore(raw) ==
    \/ ParseScore(raw) = None
    \/ ~IsDict(ParseScore(raw)[1])
    \/ \E k \in Required :
          LET data == ParseScore(raw)[1] IN
          \/ k \notin DOMAIN data
          \/ ~IsDict(data[k])
          \/ "value" \notin DOMAIN data[k]
          \/ ValueOutOfPolicy(data[k]["value"])

\* C7: a score response in which a required field is missing, non-numeric
\* or outside [1,10] makes the request fail with an error and leaves the
\* store as it was: no score, score_breakdown or updated_at is written.
C7_InvalidScoreFailsUnchanged ==
    [][\A r \in Reqs, o \in ScoreOutcomes :
          (ScoreReturn(r, o) /\ o.ok /\ InvalidScore(o.raw)) =>
              /\ resp'.status >= 400
              /\ db' = db]_vars

\* C8: every session id that was once saved to the store is still a key of
\* the store.
C8_StoredNeverRemoved == stored \subseteq DOMAIN db

\* C9: for each record at most one completion call is issued for the
\* summary and at most one for the score.
C9_DerivedComputedOnce ==
    \A id \in Ids : derivedCalls[id].summary <= 1 /\ derivedCalls[id].score <= 1

\* The file a load has read holds one complete document, the one that was
\* in place when the load opened it.
LoadedComplete ==
    loading.pc = "done" =>
        IF loading.fh = 0 THEN loading.previous = <<>>
        ELSE /\ loading.content = Serialize(loading.previous)
             /\ Parse(loading.content) = loading.previous

\* C10: at every moment, also after a crash inside save_db and with saves
\* by several handlers, the file at DB_PATH is absent (nothing saved yet)
\* or holds the complete document of the last finished save, and a load
\* reads one complete document, never a partially written one.
C10_LoadSeesCompleteDocument ==
    /\ IF paths[DB_PATH] = 0 THEN db = <<>> ELSE FileText = Serialize(db)
    /\ Parse(FileText) = db
    /\ LoadedComplete

\* A load opened the file, a save by another handler replaced it, a later
\* save was cut short by a crash that left a partial temporary file, and
\* the load then read the file it had opened.
C10_Witness ==
    /\ loading.pc = "done"
    /\ loading.fh # 0
    /\ loading.fh # paths[DB_PATH]
    /\ loading.content # <<>>
    /\ Cardinality(DOMAIN db) >= 2
    /\ budget.io = 1
    /\ saving.pc = "idle"
    /\ paths[tmp_path] # 0
    /\ inodes[paths[tmp_path]] # <<>>
    /\ ~WellFormed(inodes[paths[tmp_path]])

\* load_db was called and has returned or raised.
Loaded == loading.pc \in {"returned", "raised"}

\* The document is absent, empty (or blank), or cannot be parsed.
Unusable(exists, content) ==
    \/ ~exists
    \/ ~Decodable(content)
    \/ StripText(content) = <<>>
    \/ ~WellFormed(StripText(content))

\* C11: whenever the backing document is absent, empty or unparsable,
\* load_db returns the empty mapping and raises nothing to its caller.
C11_LoadNeverRaises ==
    (Loaded /\ Unusable(loading.fh # 0, loading.content)) =>
        (loading.pc = "returned" /\ loading.value = <<>>)

\* C12: a load that follows a save with no write in between returns a
\* mapping equal to the one saved: the same ids, each with its record.
C12_SaveLoadRoundTrip ==
    (Loaded /\ loading.saved) =>
        /\ loading.pc = "returned"
        /\ DOMAIN loading.value = DOMAIN loading.previous
        /\ \A id \in DOMAIN loading.previous : loading.value[id] = loading.previous[id]

\* A mapping of two records, one of them flushed and scored, was saved
\* over an unparsable document and loaded back.
C12_Witness ==
    /\ Loaded
    /\ loading.saved
    /\ loading.fh # 1
    /\ ~Decodable(inodes[1])
    /\ DOMAIN loading.value = {1, 2}
    /\ loading.value[1] = RecordOf(1, "scored")
    /\ loading.value[2] = RecordOf(2, "initial")

\* C13: every record of the store whose transcript is set holds the
\* flattening of its own messages, one "speaker: text" line per message in
\* order.
C13_TranscriptIsFlattenedMessages ==
    \A id \in DOMAIN db :
        db[id]["transcript"] # None =>
            db[id]["transcript"] = Some(Flatten(db[id]["messages"]))

\* The store holds a transcript of several lines written by a disconnect
\* flush and, beside it, one written at the conclusion of another session.
C13_Witness ==
    \E s, u \in Ids :
        /\ pc[s] = "done" /\ ~ended[s]
        /\ s \in DOMAIN db
        /\ Len(db[s]["messages"]) >= 3
        /\ db[s]["transcript"] = Some(Flatten(db[s]["messages"]))
        /\ pc[u] = "closed"
        /\ u \in DOMAIN db
        /\ db[u]["transcript"] = Some(Flatten(conversation_log[u]))

\* The session is concluded and its transcript is in the store.
Persisted(s) == ended[s] /\ s \in DOMAIN db /\ db[s]["transcript"] # None

\* C14: once a session is concluded and its transcript persisted, no later
\* step (a further inbound text, the client's disconnect, anything the
\* handler still does) changes the messages or the transcript of its record.
C14_PersistedTranscriptStays ==
    [][\A s \in Ids :
          Persisted(s) =>
              /\ s \in DOMAIN db'
              /\ db'[s]["messages"] = db[s]["messages"]
              /\ db'[s]["transcript"] = db[s]["transcript"]]_vars

\* A session was concluded and persisted, and afterwards the handler ran
\* its disconnect flush on the closed socket and wrote the record again.
C14_Witness ==
    \E s \in Ids :
        /\ ended[s]
        /\ pc[s] = "done"
        /\ budget.io = 0
        /\ Persisted(s)
        /\ db[s]["updated_at"] = now - 1
        /\ Len(db[s]["messages"]) = 2 * max_assistant_turns + 2

\* The handler of session s has sent the id line: the client knows the id.
KnowsId(s) == pc[s] \notin {"idle", "crashed"}

\* C15: at session start the client receives the greeting, addressed to
\* the candidate, and then the id line, and the initial record (no
\* messages, transcript, summary or score) is in the store by then; from
\* then on no fetch of that id answers not-found.
C15_IdSentAfterRecordStored ==
    [][/\ \A s \in Ids :
             (pc[s] = "idle" /\ KnowsId(s)') =>
                 /\ out' = [to |-> s, frames |-> <<Greeting(candidate_name'[s]),
                                                   InterviewIdLine(s)>>]
                 /\ s \in DOMAIN db'
                 /\ db'[s]["messages"] = <<>>
                 /\ db'[s]["transcript"] = None
                 /\ db'[s]["summary"] = None
                 /\ db'[s]["score"] = None
       /\ \A r \in Reqs, s \in Ids :
             ( /\ req[r].pc = "new" /\ req'[r].pc = "done"
               /\ resp'.kind = "interview" /\ resp'.id = s
               /\ KnowsId(s) )
             => resp'.status = 200]_vars

\* The log of session s was flushed by its disconnect and is in the store.
Flushed(s) == pc[s] = "done" /\ LogStored(db, s)

Local(s) ==
    << pc[s], job_desc[s], years_exp[s], candidate_name[s], messages[s],
       conversation_log[s], assistant_turns[s], ended[s], calls[s] >>

\* The history for the completion client that the texts of a connection
\* make: the system prompt, then each text under the role of its speaker.
HistoryOf(s) ==
    << [role |-> "system", content |-> build_system_prompt(job_desc[s], years_exp[s])] >>
    \o [i \in 1..Len(emitted[s]) |->
           [role |-> emitted[s][i].speaker, content |-> emitted[s][i].text]]

\* The replies sent on a connection, the greeting and the closing apart.
RepliesSent(s) ==
    Cardinality({i \in 2..Len(emitted[s]) :
                    emitted[s][i].speaker = "assistant" /\ emitted[s][i].text # closing})

\* The state of session s is made of the texts of its own connection only.
OwnTextsOnly(s) ==
    KnowsId(s) =>
        /\ messages[s] = HistoryOf(s)
        /\ conversation_log[s] = emitted[s]
        /\ assistant_turns[s] = RepliesSent(s)
        /\ s \in DOMAIN db =>
               /\ Len(db[s]["messages"]) <= Len(emitted[s])
               /\ db[s]["messages"] = SubSeq(emitted[s], 1, Len(db[s]["messages"]))

\* C17: with several clients connected, the history for the completion
\* client, the turn counter and the persisted messages of a session hold
\* only the texts of its own connection, and a step of one session (a
\* turn, reaching the limit, a disconnect) changes no other session's state.
C17_SessionsShareNoMemory ==
    [][/\ \A s \in Ids : OwnTextsOnly(s)'
       /\ \A s, u \in Ids : (s # u /\ Local(s)' # Local(s)) => Local(u)' = Local(u)]_vars

\* One session ran to the limit while another, connected beside it, had
\* one exchange of its own and is still open.
C17_Witness ==
    \E s, u \in Ids :
        /\ pc[s] = "closed"
        /\ assistant_turns[s] = max_assistant_turns
        /\ pc[u] = "recv"
        /\ assistant_turns[u] = 1
        /\ Len(messages[u]) = 4
        /\ Len(db[u]["messages"]) = 0
        /\ db[u]["created_at"] < db[s]["updated_at"]

\* The stream of speech request r is over: read to its end, or given up by
\* the client.
StreamEnded(r) == tts[r].pc \in {"finished", "aborted"}

\* C18: once the stream of a speech response is over, by completion or by
\* the client's abort (an abort before the first chunk was read included),
\* the temporary audio file is deleted.
C18_TempFileDeleted ==
    \A r \in TtsReqs : StreamEnded(r) => tts[r].file = "deleted"

\* The request kind needs a completion call for record id: the record
\* exists, has a transcript, and the result is not cached in it.
NeedsCompletion(kind, id) ==
    /\ id \in DOMAIN db
    /\ IF kind = "summary"
       THEN ~TruthyText(Get(db[id], "summary")) /\ TruthyText(Get(db[id], "transcript"))
       ELSE /\ kind = "simple" => Get(db[id], "score") = None
            /\ ScoreBegin(db, id) = "call"

\* C19: while the completion client is not initialized every summary and
\* score request that needs a completion is answered 503, and while the
\* synthesis adapter is not initialized every speech request with a text
\* is answered 503.
C19_Unavailable503 ==
    [][/\ \A r \in Reqs :
            /\ ~config.client
            /\ req[r].pc = "new" /\ req'[r].pc = "done"
            /\ resp'.kind \in {"summary", "score", "simple"}
            /\ NeedsCompletion(resp'.kind, resp'.id)
            => resp'.status = 503
       /\ \A r \in TtsReqs :
            /\ ~config.piper
            /\ tts[r].pc = "new" /\ tts'[r].pc # "new"
            /\ ~BlankText(tts'[r].text)
            => resp'.status = 503]_vars

\* C20: when the completion call of a summary or score request throws, the
\* request is answered 500, no further completion call is issued, and the
\* stored records stay as they are.
C20_ThrowGives500 ==
    [][\A r \in Reqs :
         ~thrown[r] /\ thrown'[r]
         => /\ resp'.to = r
            /\ resp'.status = 500
            /\ req'[r].pc = "done"
            /\ derivedCalls' = derivedCalls
            /\ db' = db]_vars

\* The completion call of a request on a record with a transcript threw,
\* and the request was answered.
C20_Witness ==
    \E r \in Reqs :
        /\ thrown[r]
        /\ resp.to = r
        /\ resp.kind \in {"summary", "score", "simple"}
        /\ resp.id \in DOMAIN db
        /\ TruthyText(Get(db[resp.id], "transcript"))
        /\ derivedCalls[resp.id].summary + derivedCalls[resp.id].score > 0

\* C21: when the synthesis of a speech request fails (non-zero exit, empty
\* output or timeout) the request is answered 500 after exactly one run of
\* the synthesizer, and no chunk of an audio body is ever streamed for it.
C21_FailedSynthesisGives500 ==
    /\ [][\A r \in TtsReqs :
            tts[r].pc = "synth" /\ tts'[r].synth \in {"exit", "empty", "timeout"}
            => /\ resp'.to = r /\ resp'.kind = "tts" /\ resp'.status = 500
               /\ tts'[r].pc = "refused"]_vars
    /\ [](\A r \in TtsReqs :
            tts[r].synth \in {"exit", "empty", "timeout"}
            => tts[r].pc = "refused" /\ tts[r].runs = 1 /\ tts[r].read = 0)

\* A synthesis timed out and its request was answered.
C21_Witness ==
    \E r \in TtsReqs :
        /\ tts[r].synth = "timeout"
        /\ tts[r].pc = "refused"
        /\ resp.kind = "tts" /\ resp.status = 500

\* The body of a response is one integer in 1..10.
ScoreNumber(body) ==
    /\ body # None
    /\ ~IsDict(body[1])
    /\ body[1].t = "int"
    /\ body[1].n \in 1..10

\* C22: a score_simple request that computes the score of a record answers
\* with the overall value it stored, an integer in 1..10; a score_simple
\* request on a record that has a score answers with that same number and
\* issues no completion call.
C22_SimpleScoreComputedThenCached ==
    [][\A r \in Reqs :
         /\ ( /\ req[r].pc = "await" /\ req[r].kind = "simple"
              /\ req'[r].pc = "done" /\ resp'.status = 200 )
            => /\ ScoreNumber(resp'.body)
               /\ Get(db'[req[r].id], "score") = resp'.body
         /\ ( /\ req[r].pc = "new" /\ req'[r].pc = "done"
              /\ resp'.to = r /\ resp'.kind = "simple"
              /\ resp'.id \in DOMAIN db
              /\ Get(db[resp'.id], "score") # None )
            => /\ resp'.status = 200
               /\ resp'.body = db[resp'.id]["score"]
               /\ ScoreNumber(resp'.body)
               /\ derivedCalls' = derivedCalls]_vars

\* The state of session 1 one exchange before the limit, from which the
\* runs about the end of an interview start, is a state of the full runs.
LateSessionReached == LateSession

\* C23: the fields job_description, experience_required and candidate_name
\* of a record of the store are the same after every step (a conclusion
\* flush, a disconnect flush, the save of a summary or a score request) as
\* before it.
C23_ConfigNeverChanges ==
    [][\A id \in DOMAIN db :
         id \in DOMAIN db' =>
             /\ db'[id]["job_description"] = db[id]["job_description"]
             /\ db'[id]["experience_required"] = db[id]["experience_required"]
             /\ db'[id]["candidate_name"] = db[id]["candidate_name"]]_vars

\* A concluded session's record went through the conclusion flush, the
\* caching of a summary and of a score and a disconnect flush, beside the
\* record of a session with another configuration.
C23_Witness ==
    \E s, u \in Ids :
        /\ ended[s] /\ pc[s] = "done"
        /\ ConfigStored(db, s)
        /\ TruthyText(Get(db[s], "summary"))
        /\ "score_breakdown" \in DOMAIN db[s]
        /\ pc[u] = "done"
        /\ ConfigStored(db, u)
        /\ db[u]["job_description"] # db[s]["job_description"]

\* C24: in every state of the store each record's id field is the key the
\* record is stored under (so it never changes, and no two records have
\* the same id).
C24_IdIsKey ==
    /\ \A k \in DOMAIN db : "id" \in DOMAIN db[k] /\ db[k]["id"] = k
    /\ \A k, m \in DOMAIN db : db[k]["id"] = db[m]["id"] => k = m

\* The store holds the records of two sessions: one written by a flush and
\* by the save of a summary request, one as the session start created it.
C24_Witness ==
    \E s, u \in Ids :
        /\ s # u
        /\ {s, u} \subseteq DOMAIN db
        /\ db[s]["transcript"] # None
        /\ TruthyText(Get(db[s], "summary"))
        /\ pc[u] = "recv"
        /\ db[u]["messages"] = <<>>
        /\ db[s]["id"] = s
        /\ db[u]["id"] = u

\* C25: every write that changes a record of the store (a conclusion
\* flush, a disconnect flush, the caching of a summary or of a score) sets
\* the record's updated_at to the time of that write: no record changes
\* with its updated_at left at, or set to, another time.
C25_WritesStampUpdatedAt ==
    [][\A id \in DOMAIN db :
         (id \in DOMAIN db' /\ db'[id] # db[id]) =>
             /\ "updated_at" \in DOMAIN db'[id]
             /\ db'[id]["updated_at"] = now]_vars

\* C26: flattening the same messages again gives the same transcript: a
\* write that leaves the messages of a record with a transcript as they
\* were (a flush of an unchanged log) leaves its transcript as it was.
C26_ReflushSameTranscript ==
    [][\A id \in DOMAIN db :
         ( /\ id \in DOMAIN db'
           /\ db[id]["transcript"] # None
           /\ db'[id]["messages"] = db[id]["messages"] )
         => db'[id]["transcript"] = db[id]["transcript"]]_vars

\* The log persisted at the conclusion was flushed once more, unchanged, by
\* the disconnect on the closed socket, as the last write to the store.
C26_Witness ==
    \E s \in Ids :
        /\ ended[s] /\ pc[s] = "done"
        /\ \A r \in Reqs : req[r].pc = "new"
        /\ s \in DOMAIN db
        /\ db[s]["updated_at"] = now - 1
        /\ db[s]["messages"] = conversation_log[s]
        /\ db[s]["transcript"] = Some(Flatten(conversation_log[s]))

\* The text contains a well-formed JSON object.
HasObject(text) == \E i \in 1..Len(text) : text[i].p = "object"

\* The first well-formed JSON object of the text.
FirstObject(text) ==
    text[CHOOSE i \in 1..Len(text) :
            /\ text[i].p = "object"
            /\ \A k \in 1..(i - 1) : text[k].p # "object"].data

\* C27: for every response text that does not parse directly and contains
\* a well-formed JSON object (texts with several objects or with stray
\* braces after the first object included), the extraction returns the
\* first well-formed object of the text.
C27_ExtractsFirstObject ==
    ( /\ extraction.pc = "parsed"
      /\ Loads(extraction.text).raised
      /\ HasObject(extraction.text) )
    => extraction.value = Some(FirstObject(extraction.text))

\* The non-empty texts the handler of session s has taken from its client.
UserCount(s) ==
    Cardinality({i \in 1..Len(conversation_log[s]) : conversation_log[s][i].speaker = "user"})

\* C28: with a client that keeps sending non-empty texts and completion
\* calls that all return, a connected session is eventually concluded, and
\* it is concluded exactly when the 30th non-empty text has been answered.
C28_ConcludesAfter30Messages ==
    /\ (pc[Staying] = "recv" /\ ~ended[Staying]) ~> ended[Staying]
    /\ [][(~ended[Staying] /\ ended'[Staying])
            => UserCount(Staying)' = max_assistant_turns]_vars
    /\ [](~ended[Staying] => UserCount(Staying) <= max_assistant_turns)

\* The session was concluded with its 30th text, one of the completion
\* calls on the way having failed.
C28_Witness ==
    /\ ended[Staying]
    /\ UserCount(Staying) = max_assistant_turns
    /\ budget.failures = 1
    /\ calls[Staying] = max_assistant_turns

\* C29: the history a completion call of a session is given is the system
\* prompt, then the greeting and every user text and assistant reply
\* (error replies included) of the connection so far, in their order,
\* ending with the user text just received; and that text is in the
\* in-memory log by then.
C29_CallGetsFullHistory ==
    \A s \in Ids :
        pc[s] = "call" =>
            LET h == messages[s]
                n == Len(emitted[s])
            IN  /\ Len(h) = n + 1
                /\ Len(h) = 2 * calls[s] + 1
                /\ h[1] = [role |-> "system",
                           content |-> build_system_prompt(job_desc[s], years_exp[s])]
                /\ h[2] = [role |-> "assistant", content |-> Greeting(candidate_name[s])]
                /\ \A i \in 1..n :
                       h[i + 1] = [role |-> emitted[s][i].speaker,
                                   content |-> emitted[s][i].text]
                /\ h[n + 1].role = "user"
                /\ emitted[s][n] = Received(h[n + 1].content)
                /\ conversation_log[s][Len(conversation_log[s])] = UserEntry(h[n + 1].content)

\* A completion call is under way whose history holds an earlier error
\* reply between the user texts.
C29_Witness ==
    \E s \in Ids :
        /\ pc[s] = "call"
        /\ calls[s] >= 3
        /\ \E i \in 1..Len(messages[s]) :
               messages[s][i] = [role |-> "assistant", content |-> CompletionError]

\* The handler of session s runs its disconnect flush and the flush saves.
DisconnectFlush(s) == pc[s] \in {"recv", "closed"} /\ pc'[s] = "done" /\ now' # now

\* The fields the disconnect flush writes.
FlushedFields ==
    { "id", "job_description", "experience_required", "candidate_name",
      "messages", "transcript", "updated_at" }

\* C30: a disconnect flush writes id, the three configuration fields,
\* messages, transcript and updated_at of the session's record and nothing
\* else: every other field of that record (created_at, summary, score,
\* score_breakdown) and every other record of the store stay as they were.
C30_DisconnectFlushMerges ==
    [][\A s \in Ids :
         DisconnectFlush(s) =>
             /\ DOMAIN db' = DOMAIN db \cup {s}
             /\ \A k \in DOMAIN db \ {s} : db'[k] = db[k]
             /\ s \in DOMAIN db =>
                    /\ DOMAIN db'[s] = DOMAIN db[s] \cup FlushedFields
                    /\ \A f \in DOMAIN db[s] \ FlushedFields : db'[s][f] = db[s][f]
             /\ db'[s]["id"] = s
             /\ db'[s]["messages"] = conversation_log[s]
             /\ db'[s]["transcript"] = Some(Flatten(conversation_log[s]))
             /\ db'[s]["updated_at"] = now]_vars

\* The disconnect flush of a concluded session has written its record, which
\* holds a cached summary and score, beside the record of another session.
C30_Witness ==
    \E s, u \in Ids :
        /\ s # u
        /\ ended[s] /\ pc[s] = "done"
        /\ {s, u} \subseteq DOMAIN db
        /\ {"updated_at", "created_at"} \subseteq DOMAIN db[s]
        /\ db[s]["updated_at"] = now - 1
        /\ db[s]["created_at"] = 0
        /\ TruthyText(Get(db[s], "summary"))
        /\ Get(db[s], "score") # None
        /\ "score_breakdown" \in DOMAIN db[s]

(***************************************************************************)
(* C31  listen_and_recognize returns text or none and never raises: none   *)
(* without any recognizer call when no audio was captured, none when the   *)
(* backend name is unsupported, and none when the backend reports an       *)
(* unknown-value or a request error.                                       *)
(***************************************************************************)
C31_RecognizeNeverRaises ==
    /\ recognition.pc # "raised"
    /\ recognition.pc = "returned" =>
           /\ recognition.result \in {None, Some(RecognizedText)}
           /\ recognition.heard # "audio" =>
                  recognition.result = None /\ recognition.runs = 0
           /\ ~Supported(Effective(recognition.backend, recognition.default)) =>
                  recognition.result = None
           /\ recognition.reported \in {"unknown", "request"} =>
                  recognition.result = None

\* The handler of request r resumes after its completion call and ends.
Resumes(r) == req[r].pc = "await" /\ req'[r].pc = "done"

(***************************************************************************)
(* C32  A summary or score request for one record changes only that        *)
(* record: the step in which the request resumes from its completion call  *)
(* leaves every other record of the store as it was, whatever sessions     *)
(* did while the call was in flight.                                       *)
(***************************************************************************)
C32_RequestChangesOnlyItsRecord ==
    [][\A r \in Reqs :
         Resumes(r) =>
             \A k \in (DOMAIN db \cup DOMAIN db') \ {req[r].id} :
                 /\ k \in DOMAIN db
                 /\ k \in DOMAIN db'
                 /\ db'[k] = db[k]]_vars

\* The step of session s that sends the saved notice.
SendsSavedNotice(s) ==
    /\ pc[s] = "call"
    /\ out'.to = s
    /\ \E i \in 1..Len(out'.frames) : out'.frames[i] = SavedNotice

(***************************************************************************)
(* C33  The notice "[INFO] Interview transcript saved." is sent to the     *)
(* client only if the session's transcript and messages were written to    *)
(* the store: in the step that sends it, the store comes to hold the       *)
(* session's record with the session's log and its flattening.  In         *)
(* particular it is not sent when the record is missing at conclusion.     *)
(***************************************************************************)
C33_SavedNoticeOnlyIfSaved ==
    [][\A s \in Ids :
         SendsSavedNotice(s) =>
             /\ s \in DOMAIN db'
             /\ db'[s]["messages"] = conversation_log'[s]
             /\ db'[s]["transcript"] = Some(Flatten(conversation_log'[s]))]_vars

(***************************************************************************)
(* C34  An empty inbound message is rejected with "[error] Empty message"  *)
(* and has no other effect: the message log, the completion history, the   *)
(* number of completion calls, the turn counter, the session's state and   *)
(* the store are as before.                                                *)
(***************************************************************************)
C34_EmptyMessageOnlyRejected ==
    [][\A s \in Ids :
         ReceiveText(s, "") =>
             /\ out' = [to |-> s, frames |-> <<EmptyNotice>>]
             /\ UNCHANGED <<conversation_log, messages, calls, assistant_turns, ended, pc,
                            job_desc, years_exp, candidate_name, db>>]_vars

\* A session that has had an exchange has just rejected an empty message.
C34_Witness ==
    \E s \in Ids :
        /\ out = [to |-> s, frames |-> <<EmptyNotice>>]
        /\ pc[s] = "recv"
        /\ assistant_turns[s] >= 1
        /\ calls[s] = assistant_turns[s]

\* The synthesize_to_file of request r has returned None.
ReturnedNoPath(r) == tts[r].synth # "" /\ SynthFailed(tts[r].synth)

(***************************************************************************)
(* C35  synthesize_to_file leaves no temporary file behind on failure:     *)
(* whenever it has returned no path (after a non-zero exit, an empty       *)
(* output, a timeout or another exception; for a blank text it creates     *)
(* none), no temporary file of the call exists.                            *)
(***************************************************************************)
C35_NoTempFileAfterFailure ==
    \A r \in TtsReqs : ReturnedNoPath(r) => tts[r].file = "none"

\* A bucket as the scoring policy has it.
PolicyBucket(bucket) ==
    /\ bucket["value"].t = "int"
    /\ bucket["value"].n \in 1..10
    /\ bucket["scale"] = JInt(10)

(***************************************************************************)
(* C36  In every state of the store, a record's score and score_breakdown  *)
(* are either both unset, or both set with score equal to the breakdown's  *)
(* overall value; and every value of a stored breakdown is an integer in   *)
(* 1..10 with scale 10.                                                    *)
(***************************************************************************)
C36_ScoreMatchesBreakdown ==
    \A id \in DOMAIN db :
        IF "score_breakdown" \in DOMAIN db[id]
        THEN /\ Get(db[id], "score") = Some(db[id]["score_breakdown"]["overall"]["value"])
             /\ \A k \in Required : PolicyBucket(db[id]["score_breakdown"][k])
        ELSE Get(db[id], "score") = None

\* Request r arrives: its handler runs up to its response or its await.
Arrives(r) == req[r].pc = "new" /\ req'[r].pc # "new"

\* The kind and the target of the request that arrives: of the suspended
\* handler, or of the response given at once.
ArrivedKind(r) == IF req'[r].pc = "await" THEN req'[r].kind ELSE resp'.kind

ArrivedId(r) == IF req'[r].pc = "await" THEN req'[r].id ELSE resp'.id

Answered(r, status) ==
    /\ req'[r].pc = "done"
    /\ resp'.to = r /\ resp'.status = status
    /\ UNCHANGED <<derivedCalls, db, now, stored>>

(***************************************************************************)
(* C37  A summary, score or score_simple request for an unknown session    *)
(* id is answered not-found (404), and one for a record whose transcript   *)
(* is not yet persisted is answered with a client error (400); in both     *)
(* cases no completion call is issued and the store is not written.        *)
(***************************************************************************)
C37_UnknownOrUnpersistedRefused ==
    [][\A r \in Reqs :
         (Arrives(r) /\ ArrivedKind(r) \in {"summary", "score", "simple"}) =>
             /\ ArrivedId(r) \notin DOMAIN db => Answered(r, 404)
             /\ (ArrivedId(r) \in DOMAIN db /\ Get(db[ArrivedId(r)], "transcript") = None)
                    => Answered(r, 400)]_vars

\* A score_simple request on the record of a session still under way was
\* refused, after an earlier request; no score was ever asked of a completion.
C37_Witness ==
    /\ resp.kind = "simple" /\ resp.status = 400 /\ resp.to = 2
    /\ resp.id \in DOMAIN db
    /\ Get(db[resp.id], "transcript") = None
    /\ pc[resp.id] = "recv"
    /\ \A i \in Ids : derivedCalls[i].score = 0

====
